---------------------------- MODULE Spec2Model ----------------------------
(***************************************************************************)
(* Model of the glf32 math library (Vec3 / Mat4 over float32) and of the   *)
(* typed-buffer upload bridge UploadSliceToGL of webgl-point-cloud.        *)
(*                                                                         *)
(* float32 values are modelled as exact rationals <<n, d>> in lowest terms *)
(* with d > 0, extended with the IEEE-754 specials <<1,0>> (+Inf),         *)
(* <<-1,0>> (-Inf) and <<0,0>> (NaN).  Rounding is not modelled: the       *)
(* inputs drawn below are small integers or ratios of small integers, for  *)
(* which the operations of the library are exact or stay far from the      *)
(* float32 range limits.  The range limits themselves are modelled by the  *)
(* scaled values <<n, d, k>> = (n/d) * 2^(96*k), k = 1 or -1: finite,      *)
(* non-zero float32 values whose square leaves the float32 range (above    *)
(* 2^128 it is +-Inf, below 2^-150 it is 0).                               *)
(***************************************************************************)
EXTENDS Integers, Sequences, FiniteSets, TLC

VARIABLES
    ma, mb,         \* the caller's two Mat4 variables (nil until assigned)
    call,           \* the library call that returned (or panicked) last
    heap,           \* the []float32 slices the caller has allocated, by reference
    nCalls,         \* the number of vertex transforms the caller has made
    panicked,       \* a Go panic has ended the program
    glCalls,        \* the calls the graphics backend has received, in order
    glNextBuffer,   \* the number of handles createBuffer has returned
    glBound,        \* the buffer bound to each target (0: none)
    glStore,        \* the data store of each buffer, by handle
    nUploads,       \* the number of UploadSliceToGL invocations that returned
    upCall,         \* the UploadSliceToGL invocation that ended last
    mainPc,         \* the statement of main()'s start-up that runs next
    rafPending,     \* requestAnimationFrame has scheduled renderFrame
    resizeListening,\* the resize listener is registered
    frameAngle,     \* main's variable angle, the model rotation kept between frames
    canvasSize,     \* the side of the canvas drawing buffer
    nFrames,        \* the number of runs of renderFrame
    nResizes,       \* the number of runs of resizeHandler
    camera,         \* the orbit Camera
    nEvents         \* the number of calls made on the Camera

mathVars == <<ma, mb, call, heap, nCalls>>
glVars == <<glCalls, glNextBuffer, glBound, glStore, nUploads, upCall>>
frameVars == <<mainPc, rafPending, resizeListening, frameAngle, canvasSize, nFrames, nResizes>>
camVars == <<camera, nEvents>>
appVars == <<frameVars, camVars>>
vars ==
    <<ma, mb, call, heap, nCalls, panicked, glCalls, glNextBuffer, glBound, glStore, nUploads, upCall,
      mainPc, rafPending, resizeListening, frameAngle, canvasSize, nFrames, nResizes, camera, nEvents>>

(***************************************************************************)
(* Bounds of the model.                                                    *)
(***************************************************************************)
MaxUploads == 2
MaxLen == 2
MaxChain == 1
MaxVerts == 2
MaxCalls == 2

(***************************************************************************)
(* float32 arithmetic.                                                     *)
(***************************************************************************)
Abs(n) == IF n < 0 THEN -n ELSE n

Sgn(n) == IF n < 0 THEN -1 ELSE IF n > 0 THEN 1 ELSE 0

RECURSIVE Gcd(_, _)
Gcd(a, b) == IF b = 0 THEN a ELSE Gcd(b, a % b)

\* n/d divided through by g, with a positive denominator
Reduced(n, d, g) == IF d < 0 THEN <<(-n) \div g, (-d) \div g>> ELSE <<n \div g, d \div g>>

\* the float32 value n/d (d = 0 gives the IEEE special of the sign of n)
F(n, d) ==
    IF d = 0 THEN <<Sgn(n), 0>>
    ELSE IF d = 1 THEN <<n, 1>>
    ELSE Reduced(n, d, Gcd(Abs(n), Abs(d)))

Zero == <<0, 1>>
One == <<1, 1>>
NaN == <<0, 0>>

IsNaN(x) == x = NaN
IsFinite(x) == x[2] # 0

\* the exponent class of a float32: 1 for (n/d) * 2^96, -1 for (n/d) * 2^-96, else 0
ScaleOf(x) == IF Len(x) = 3 THEN x[3] ELSE 0

Scaled(x) == Len(x) = 3

\* the float32 value (n/d) * 2^(96*k) for -2 <= k <= 2 and d # 0: with |n/d| between
\* 2^-31 and 2^31, k = 2 is beyond the largest float32 and k = -2 is below the
\* smallest
FScaled(n, d, k) ==
    LET r == F(n, d)
    IN  IF r[1] = 0 THEN Zero
        ELSE IF k = 0 THEN r
        ELSE IF k >= 2 THEN <<Sgn(r[1]), 0>>
        ELSE IF k <= -2 THEN Zero
        ELSE <<r[1], r[2], k>>

\* x + y when x or y is scaled: the operand of the smaller exponent class is
\* below half a unit in the last place of the other and is rounded away
FAddScaled(x, y) ==
    IF IsNaN(x) \/ IsNaN(y) THEN NaN
    ELSE IF x[2] = 0 THEN x
    ELSE IF y[2] = 0 THEN y
    ELSE IF ScaleOf(x) = ScaleOf(y)
         THEN FScaled(x[1] * y[2] + y[1] * x[2], x[2] * y[2], ScaleOf(x))
    ELSE IF ScaleOf(x) > ScaleOf(y) THEN (IF x[1] = 0 THEN y ELSE x)
    ELSE (IF y[1] = 0 THEN x ELSE y)

FMulScaled(x, y) ==
    IF IsNaN(x) \/ IsNaN(y) THEN NaN
    ELSE IF x[2] = 0 \/ y[2] = 0 THEN <<Sgn(x[1]) * Sgn(y[1]), 0>>
    ELSE FScaled(x[1] * y[1], x[2] * y[2], ScaleOf(x) + ScaleOf(y))

FDivScaled(x, y) ==
    IF IsNaN(x) \/ IsNaN(y) THEN NaN
    ELSE IF x[2] = 0 THEN <<Sgn(x[1]) * Sgn(y[1]), 0>>
    ELSE IF y[2] = 0 THEN Zero
    ELSE IF y[1] = 0 THEN <<Sgn(x[1]), 0>>
    ELSE FScaled(x[1] * y[2] * Sgn(y[1]), x[2] * Abs(y[1]), ScaleOf(x) - ScaleOf(y))

\* the place of x in the order of the exponent classes: -Inf, negative huge,
\* negative, negative tiny, 0, positive tiny, positive, positive huge, +Inf
OrderClass(x) == IF x[2] = 0 THEN 4 * x[1] ELSE Sgn(x[1]) * (2 + ScaleOf(x))

FGtScaled(x, y) ==
    /\ ~IsNaN(x) /\ ~IsNaN(y)
    /\ \/ OrderClass(x) > OrderClass(y)
       \/ /\ OrderClass(x) = OrderClass(y)
          /\ x[2] # 0
          /\ x[1] * y[2] > y[1] * x[2]

FNeg(x) == [x EXCEPT ![1] = -x[1]]

FAdd(x, y) ==
    IF Scaled(x) \/ Scaled(y) THEN FAddScaled(x, y)
    ELSE IF x[2] # 0 /\ y[2] # 0 THEN F(x[1] * y[2] + y[1] * x[2], x[2] * y[2])
    ELSE IF IsNaN(x) \/ IsNaN(y) THEN NaN
    ELSE IF x[2] # 0 THEN y
    ELSE IF y[2] # 0 THEN x
    ELSE IF x = y THEN x ELSE NaN

FSub(x, y) == FAdd(x, FNeg(y))

FMul(x, y) ==
    IF Scaled(x) \/ Scaled(y) THEN FMulScaled(x, y)
    ELSE IF IsNaN(x) \/ IsNaN(y) THEN NaN
    ELSE F(x[1] * y[1], x[2] * y[2])

\* Go float32 division never panics: x/0 is +-Inf, 0/0 is NaN
FDiv(x, y) ==
    IF Scaled(x) \/ Scaled(y) THEN FDivScaled(x, y)
    ELSE IF IsNaN(x) \/ IsNaN(y) THEN NaN
    ELSE IF x[2] = 0 /\ y[2] = 0 THEN NaN
    ELSE IF y[1] = 0 THEN F(x[1], 0)
    ELSE F(x[1] * y[2] * Sgn(y[1]), x[2] * Abs(y[1]))

\* Go's == and != on float32 (NaN is unequal to everything, itself included)
FEq(x, y) == ~IsNaN(x) /\ ~IsNaN(y) /\ x = y
FNe(x, y) == ~FEq(x, y)

\* an integer as a float32
I(n) == <<n, 1>>


\* Go's > on float32
FGt(x, y) ==
    IF Scaled(x) \/ Scaled(y) THEN FGtScaled(x, y)
    ELSE ~IsNaN(x) /\ ~IsNaN(y) /\ x[1] * y[2] > y[1] * x[2]

\* the integer square root of a perfect square
ISqrt(n) == CHOOSE r \in 0..n : r * r = n

IsSquare(n) == \E r \in 0..n : r * r = n

\* the float32 values whose square root the model represents exactly
SqrtDefined(x) ==
    /\ ~Scaled(x)
    /\ x[2] = 0 \/ (x[1] >= 0 /\ IsSquare(x[1]) /\ IsSquare(x[2]))

\* float32(math.Sqrt(float64(x)))
Sqrt(x) ==
    IF x[2] = 0 THEN (IF x[1] > 0 THEN x ELSE NaN)
    ELSE F(ISqrt(x[1]), ISqrt(x[2]))

(***************************************************************************)
(* Angles.  An angle is named by a string; math.Sin, math.Cos and          *)
(* math.Tan(angle/2) are exact tables on the angles whose values are       *)
(* rational.  "atan43" is atan(4/3), the angle of the 3-4-5 triangle.      *)
(***************************************************************************)
Angles == {"0", "pi/2", "atan43"}

Sin(angle) ==
    CASE angle = "0" -> I(0)
      [] angle = "pi/2" -> I(1)
      [] angle = "atan43" -> F(4, 5)

Cos(angle) ==
    CASE angle = "0" -> I(1)
      [] angle = "pi/2" -> I(0)
      [] angle = "atan43" -> F(3, 5)

\* math.Tan(float64(fov)/2), on the angles where it is finite
TanHalf(fov) ==
    CASE fov = "0" -> I(0)
      [] fov = "pi/2" -> I(1)
      [] fov = "atan43" -> F(1, 2)

(***************************************************************************)
(* The glf32 library.  A Go slice index i is the sequence index i + 1.     *)
(***************************************************************************)
At(s, i) == s[i + 1]

Identity ==
    << I(1), I(0), I(0), I(0),
       I(0), I(1), I(0), I(0),
       I(0), I(0), I(1), I(0),
       I(0), I(0), I(0), I(1) >>

SubtractPanics(a, b) == Len(a) # 3 \/ Len(b) # 3

Subtract(a, b) ==
    << FSub(At(a, 0), At(b, 0)), FSub(At(a, 1), At(b, 1)), FSub(At(a, 2), At(b, 2)) >>

NormalizePanics(v) == Len(v) # 3

\* v[0]*v[0] + v[1]*v[1] + v[2]*v[2]
SquaredLength(v) ==
    FAdd(FAdd(FMul(At(v, 0), At(v, 0)), FMul(At(v, 1), At(v, 1))), FMul(At(v, 2), At(v, 2)))

\* (the division made without the test l > 0)
Normalize_NoGuard(v) ==
    LET l == Sqrt(SquaredLength(v))
    IN  << FDiv(At(v, 0), l), FDiv(At(v, 1), l), FDiv(At(v, 2), l) >>

Normalize(v) ==
    LET l == Sqrt(SquaredLength(v))
    IN  IF FGt(l, Zero)
        THEN << FDiv(At(v, 0), l), FDiv(At(v, 1), l), FDiv(At(v, 2), l) >>
        ELSE << Zero, Zero, Zero >>

CrossPanics(a, b) == Len(a) # 3 \/ Len(b) # 3

\* (the operands taken in the other order)
Cross_Swapped(a, b) ==
    << FSub(FMul(At(b, 1), At(a, 2)), FMul(At(b, 2), At(a, 1))),
       FSub(FMul(At(b, 2), At(a, 0)), FMul(At(b, 0), At(a, 2))),
       FSub(FMul(At(b, 0), At(a, 1)), FMul(At(b, 1), At(a, 0))) >>

Cross(a, b) ==
    << FSub(FMul(At(a, 1), At(b, 2)), FMul(At(a, 2), At(b, 1))),
       FSub(FMul(At(a, 2), At(b, 0)), FMul(At(a, 0), At(b, 2))),
       FSub(FMul(At(a, 0), At(b, 1)), FMul(At(a, 1), At(b, 0))) >>

DotPanics(a, b) == Len(a) # 3 \/ Len(b) # 3

Dot(a, b) ==
    FAdd(FAdd(FMul(At(a, 0), At(b, 0)), FMul(At(a, 1), At(b, 1))), FMul(At(a, 2), At(b, 2)))

\* (the translation stored in the last row instead of the last column)
Translate_RowMajor(x, y, z) ==
    << I(1), I(0), I(0), x,
       I(0), I(1), I(0), y,
       I(0), I(0), I(1), z,
       I(0), I(0), I(0), I(1) >>

\* (y and z stored at each other's index)
Translate_SwappedYZ(x, y, z) ==
    << I(1), I(0), I(0), I(0),
       I(0), I(1), I(0), I(0),
       I(0), I(0), I(1), I(0),
       x, z, y, I(1) >>

Translate(x, y, z) ==
    << I(1), I(0), I(0), I(0),
       I(0), I(1), I(0), I(0),
       I(0), I(0), I(1), I(0),
       x, y, z, I(1) >>

\* (s and -s at each other's index)
RotateX_Transposed(angle) ==
    LET s == Sin(angle)
        c == Cos(angle)
    IN  << I(1), I(0), I(0), I(0),
           I(0), c, FNeg(s), I(0),
           I(0), s, c, I(0),
           I(0), I(0), I(0), I(1) >>

RotateX(angle) ==
    LET s == Sin(angle)
        c == Cos(angle)
    IN  << I(1), I(0), I(0), I(0),
           I(0), c, s, I(0),
           I(0), FNeg(s), c, I(0),
           I(0), I(0), I(0), I(1) >>

\* (s and -s at each other's index)
RotateY_Transposed(angle) ==
    LET s == Sin(angle)
        c == Cos(angle)
    IN  << c, I(0), s, I(0),
           I(0), I(1), I(0), I(0),
           FNeg(s), I(0), c, I(0),
           I(0), I(0), I(0), I(1) >>

\* (the sine and the cosine exchanged)
RotateY_SinCosSwapped(angle) ==
    LET s == Cos(angle)
        c == Sin(angle)
    IN  << c, I(0), FNeg(s), I(0),
           I(0), I(1), I(0), I(0),
           s, I(0), c, I(0),
           I(0), I(0), I(0), I(1) >>

RotateY(angle) ==
    LET s == Sin(angle)
        c == Cos(angle)
    IN  << c, I(0), FNeg(s), I(0),
           I(0), I(1), I(0), I(0),
           s, I(0), c, I(0),
           I(0), I(0), I(0), I(1) >>

RotateZ(angle) ==
    LET s == Sin(angle)
        c == Cos(angle)
    IN  << c, s, I(0), I(0),
           FNeg(s), c, I(0), I(0),
           I(0), I(0), I(1), I(0),
           I(0), I(0), I(0), I(1) >>

LookAtPanics(eye, center, up) == Len(eye) # 3 \/ Len(center) # 3 \/ Len(up) # 3

\* the inputs of LookAt whose two Normalize calls the model represents exactly
LookAtDefined(eye, center, up) ==
    /\ SqrtDefined(SquaredLength(Subtract(center, eye)))
    /\ SqrtDefined(SquaredLength(Cross(Normalize(Subtract(center, eye)), up)))

\* (the third row holding f instead of -f)
LookAt_ForwardRow(eye, center, up) ==
    LET f == Normalize(Subtract(center, eye))
        s == Normalize(Cross(f, up))
        u == Cross(s, f)
        tx == FNeg(Dot(s, eye))
        ty == FNeg(Dot(u, eye))
        tz == Dot(f, eye)
    IN  << At(s, 0), At(u, 0), At(f, 0), I(0),
           At(s, 1), At(u, 1), At(f, 1), I(0),
           At(s, 2), At(u, 2), At(f, 2), I(0),
           tx, ty, tz, I(1) >>

\* (the translation column holding the dot products without their signs)
LookAt_TranslationSigns(eye, center, up) ==
    LET f == Normalize(Subtract(center, eye))
        s == Normalize(Cross(f, up))
        u == Cross(s, f)
        tx == Dot(s, eye)
        ty == Dot(u, eye)
        tz == FNeg(Dot(f, eye))
    IN  << At(s, 0), At(u, 0), FNeg(At(f, 0)), I(0),
           At(s, 1), At(u, 1), FNeg(At(f, 1)), I(0),
           At(s, 2), At(u, 2), FNeg(At(f, 2)), I(0),
           tx, ty, tz, I(1) >>

\* (the second row holding up as it was handed in)
LookAt_UpAsGiven(eye, center, up) ==
    LET f == Normalize(Subtract(center, eye))
        s == Normalize(Cross(f, up))
        u == up
        tx == FNeg(Dot(s, eye))
        ty == FNeg(Dot(u, eye))
        tz == Dot(f, eye)
    IN  << At(s, 0), At(u, 0), FNeg(At(f, 0)), I(0),
           At(s, 1), At(u, 1), FNeg(At(f, 1)), I(0),
           At(s, 2), At(u, 2), FNeg(At(f, 2)), I(0),
           tx, ty, tz, I(1) >>

LookAt(eye, center, up) ==
    LET f == Normalize(Subtract(center, eye))
        s == Normalize(Cross(f, up))
        u == Cross(s, f)
        tx == FNeg(Dot(s, eye))
        ty == FNeg(Dot(u, eye))
        tz == Dot(f, eye)
    IN  << At(s, 0), At(u, 0), FNeg(At(f, 0)), I(0),
           At(s, 1), At(u, 1), FNeg(At(f, 1)), I(0),
           At(s, 2), At(u, 2), FNeg(At(f, 2)), I(0),
           tx, ty, tz, I(1) >>

\* (m[14] without its factor 2)
Perspective_NoTwo(fov, aspect, near, far) ==
    LET f == FDiv(One, TanHalf(fov))
        nf == FDiv(One, FSub(near, far))
    IN  << FDiv(f, aspect), I(0), I(0), I(0),
           I(0), f, I(0), I(0),
           I(0), I(0), FMul(FAdd(far, near), nf), I(-1),
           I(0), I(0), FMul(FMul(far, near), nf), I(0) >>

\* (nf computed as 1 / (far - near))
Perspective_FarMinusNear(fov, aspect, near, far) ==
    LET f == FDiv(One, TanHalf(fov))
        nf == FDiv(One, FSub(far, near))
    IN  << FDiv(f, aspect), I(0), I(0), I(0),
           I(0), f, I(0), I(0),
           I(0), I(0), FMul(FAdd(far, near), nf), I(-1),
           I(0), I(0), FMul(FMul(FMul(I(2), far), near), nf), I(0) >>

Perspective(fov, aspect, near, far) ==
    LET f == FDiv(One, TanHalf(fov))
        nf == FDiv(One, FSub(near, far))
    IN  << FDiv(f, aspect), I(0), I(0), I(0),
           I(0), f, I(0), I(0),
           I(0), I(0), FMul(FAdd(far, near), nf), I(-1),
           I(0), I(0), FMul(FMul(FMul(I(2), far), near), nf), I(0) >>

MultiplyMatricesPanics(a, b) == Len(a) # 16 \/ Len(b) # 16

\* the inner loop over k: c[j*4+i] = 0; c[j*4+i] += a[k*4+i] * b[j*4+k]
RECURSIVE MulSum(_, _, _, _, _, _)
MulSum(a, b, i, j, k, acc) ==
    IF k = 4 THEN acc
    ELSE MulSum(a, b, i, j, k + 1, FAdd(acc, FMul(At(a, k * 4 + i), At(b, j * 4 + k))))

\* the element the loops store at index n = j*4+i of the result
MulElement_Transposed(a, b, n) == MulSum(a, b, n \div 4, n % 4, 0, Zero)

MulElement(a, b, n) == MulSum(a, b, n % 4, n \div 4, 0, Zero)

\* (the operands taken in the other order)
MultiplyMatrices_Swapped(a, b) == [n \in 1..16 |-> MulElement(b, a, n - 1)]

\* (the accumulator left uncleared: c[j*4+i] = 0 missing, the sum started at 1)
MultiplyMatrices_NoClear(a, b) ==
    [n \in 1..16 |-> MulSum(a, b, (n - 1) % 4, (n - 1) \div 4, 0, One)]

MultiplyMatrices(a, b) == [n \in 1..16 |-> MulElement(a, b, n - 1)]


\* (the length of coords not examined)
TransformVerticesPanics_MatrixOnly(coords, m) == Len(m) # 16

TransformVerticesPanics(coords, m) == Len(m) # 16 \/ Len(coords) % 3 # 0

\* row r of m times the column vector (x, y, z, w): m[r]*x + m[4+r]*y + m[8+r]*z + m[12+r]*w
RowTimes(m, r, x, y, z, w) ==
    FAdd(FAdd(FAdd(FMul(At(m, r), x), FMul(At(m, 4 + r), y)), FMul(At(m, 8 + r), z)),
         FMul(At(m, 12 + r), w))

\* one iteration of the loop of TransformVertices: vertex i of coords is overwritten
\* (the perspective divide without its test of w)
TransformVertex_NoGuard(coords, m, i) ==
    LET idx == i * 3
        x == At(coords, idx)
        y == At(coords, idx + 1)
        z == At(coords, idx + 2)
        w == One
        transformedX == RowTimes(m, 0, x, y, z, w)
        transformedY == RowTimes(m, 1, x, y, z, w)
        transformedZ == RowTimes(m, 2, x, y, z, w)
        transformedW == RowTimes(m, 3, x, y, z, w)
    IN  [coords EXCEPT ![idx + 1] = FDiv(transformedX, transformedW),
                       ![idx + 2] = FDiv(transformedY, transformedW),
                       ![idx + 3] = FDiv(transformedZ, transformedW)]

TransformVertex(coords, m, i) ==
    LET idx == i * 3
        x == At(coords, idx)
        y == At(coords, idx + 1)
        z == At(coords, idx + 2)
        w == One
        transformedX == RowTimes(m, 0, x, y, z, w)
        transformedY == RowTimes(m, 1, x, y, z, w)
        transformedZ == RowTimes(m, 2, x, y, z, w)
        transformedW == RowTimes(m, 3, x, y, z, w)
    IN  IF FNe(transformedW, Zero)
        THEN [coords EXCEPT ![idx + 1] = FDiv(transformedX, transformedW),
                            ![idx + 2] = FDiv(transformedY, transformedW),
                            ![idx + 3] = FDiv(transformedZ, transformedW)]
        ELSE [coords EXCEPT ![idx + 1] = Zero, ![idx + 2] = Zero, ![idx + 3] = Zero]

\* for i := 0; i < numVertices; i++ { ... }
RECURSIVE TransformLoop(_, _, _, _)
TransformLoop(coords, m, i, numVertices) ==
    IF i >= numVertices THEN coords
    ELSE TransformLoop(TransformVertex(coords, m, i), m, i + 1, numVertices)

\* the contents of the coords slice when TransformVertices returns
TransformVertices(coords, m) == TransformLoop(coords, m, 0, Len(coords) \div 3)

applyMatrixToVec3sPanics(coords, m) == Len(m) # 16 \/ Len(coords) % 3 # 0

\* the new slice applyMatrixToVec3s returns (no perspective divide)
applyMatrixToVec3s(coords, m) ==
    [n \in 1..Len(coords) |->
        LET idx == ((n - 1) \div 3) * 3
        IN  RowTimes(m, (n - 1) % 3, At(coords, idx), At(coords, idx + 1),
                     At(coords, idx + 2), One)]


(***************************************************************************)
(* The callers of the library.  The inputs are drawn from small sets; the  *)
(* most recent call, its arguments and what it returned are kept in call.  *)
(***************************************************************************)
Vec3(x, y, z) == << I(x), I(y), I(z) >>

TransVals == { Vec3(10, 20, 30), Vec3(0, 0, -5), Vec3(-1, 2, 0) }

\* the eye positions: those of the tests and callers, and (0, 0, 3*2^96)
Eyes ==
    { Vec3(0, 0, 5), Vec3(0, 0, 2), Vec3(3, 0, 4), Vec3(0, 3, 4),
      << Zero, Zero, <<3, 1, 1>> >> }

Centers == { Vec3(0, 0, 0) }

Ups == { Vec3(0, 1, 0) }

Fovs == { "pi/2", "atan43" }

Aspects == { I(2) }

\* (near, far): two valid pairs, and the caller error near = far
NearFars == { << I(1), I(3) >>, << I(1), I(2) >>, << I(1), I(1) >> }

\* a matrix literal with sixteen different elements
Counting == [n \in 1..16 |-> I(n)]

Literals == { Counting }

Points ==
    { Vec3(0, 0, 0), Vec3(1, 0, 0), Vec3(0, -2, 0), Vec3(1, 2, -3), Vec3(0, 0, -1), Vec3(1, 0, -2) }

RECURSIVE VertexLists(_)
VertexLists(n) ==
    IF n = 0 THEN { <<>> }
    ELSE LET shorter == VertexLists(n - 1)
         IN  shorter \cup { c \o p : c \in { c \in shorter : Len(c) = 3 * (n - 1) }, p \in Points }

\* the coords slices handed to TransformVertices: up to MaxVerts vertices, and a
\* slice whose length is no multiple of 3
CoordInputs == VertexLists(MaxVerts) \cup { << I(1), I(2), I(3), I(4) >> }

\* the matrices handed to TransformVertices: nil, and what the library builds
XformMats ==
    { <<>>, Identity, Counting }
    \cup { Translate(t[1], t[2], t[3]) : t \in TransVals }
    \cup { RotateX(angle) : angle \in Angles }
    \cup { RotateY(angle) : angle \in Angles }
    \cup { RotateZ(angle) : angle \in Angles }
    \cup { LookAt(eye, Vec3(0, 0, 0), Vec3(0, 1, 0)) : eye \in Eyes }
    \cup { Perspective(fov, I(2), nearFar[1], nearFar[2]) :
               fov \in Fovs, nearFar \in { p \in NearFars : FGt(p[2], p[1]) } }
    \cup { MultiplyMatrices(Perspective("pi/2", I(2), I(1), I(3)),
                            LookAt(eye, Vec3(0, 0, 0), Vec3(0, 1, 0))) : eye \in Eyes }

Slots == { "a", "b" }

NoCall ==
    [ op |-> "none", args |-> <<>>, a |-> <<>>, b |-> <<>>, ret |-> <<>>,
      pre |-> <<>>, arg |-> 0, retRef |-> 0, depth |-> 0, panic |-> FALSE ]

\* slot = op(args), a call that returns the Mat4 m.  A caller builds its matrices
\* and then composes them (update() before renderFrame, the set-up lines of each
\* test before its MultiplyMatrices calls): building again after a product would
\* only overwrite call and reach the states that building first reaches.
Construct(slot, op, args, m) ==
    /\ call.op # "MultiplyMatrices"
    /\ ma' = IF slot = "a" THEN m ELSE ma
    /\ mb' = IF slot = "b" THEN m ELSE mb
    /\ call' = [NoCall EXCEPT !.op = op, !.args = args, !.ret = m]
    /\ UNCHANGED <<heap, nCalls, panicked, glVars, appVars>>

CallIdentity ==
    /\ ~panicked
    /\ \E slot \in Slots : Construct(slot, "Identity", <<>>, Identity)

CallTranslate ==
    /\ ~panicked
    /\ \E slot \in Slots, t \in TransVals :
           Construct(slot, "Translate", t, Translate(t[1], t[2], t[3]))

CallRotateX ==
    /\ ~panicked
    /\ \E slot \in Slots, angle \in Angles :
           Construct(slot, "RotateX", <<angle>>, RotateX(angle))

CallRotateY ==
    /\ ~panicked
    /\ \E slot \in Slots, angle \in Angles :
           Construct(slot, "RotateY", <<angle>>, RotateY(angle))

CallRotateZ ==
    /\ ~panicked
    /\ \E slot \in Slots, angle \in Angles :
           Construct(slot, "RotateZ", <<angle>>, RotateZ(angle))

CallLookAt ==
    /\ ~panicked
    /\ \E slot \in Slots, eye \in Eyes, center \in Centers, up \in Ups :
          /\ ~LookAtPanics(eye, center, up)
          /\ LookAtDefined(eye, center, up)
          /\ Construct(slot, "LookAt", <<eye, center, up>>, LookAt(eye, center, up))

CallPerspective ==
    /\ ~panicked
    /\ \E slot \in Slots, fov \in Fovs, aspect \in Aspects, nearFar \in NearFars :
           Construct(slot, "Perspective", <<fov, aspect, nearFar[1], nearFar[2]>>,
                     Perspective(fov, aspect, nearFar[1], nearFar[2]))

\* slot = Mat4{...}
LoadLiteral ==
    /\ ~panicked
    /\ \E slot \in Slots, m \in Literals : Construct(slot, "literal", <<>>, m)

\* the operands a caller passes: its two variables, and the product that the
\* previous MultiplyMatrices returned (a chain of at most MaxChain such uses)
Operands ==
    { "a", "b" } \cup
    ( IF call.op = "MultiplyMatrices" /\ ~call.panic /\ call.depth < MaxChain
      THEN { "prev" } ELSE {} )

Operand(name) ==
    CASE name = "a" -> ma
      [] name = "b" -> mb
      [] name = "prev" -> call.ret

\* MultiplyMatrices(a, b) on the caller's matrices and on the previous product
CallMultiplyMatrices ==
    /\ ~panicked
    /\ \E left \in Operands, right \in Operands :
          /\ ~(left = "prev" /\ right = "prev")
          /\ LET a == Operand(left)
                 b == Operand(right)
             IN  IF MultiplyMatricesPanics(a, b)
                 THEN /\ panicked' = TRUE
                      /\ call' = [NoCall EXCEPT !.op = "MultiplyMatrices",
                                                !.args = <<left, right>>,
                                                !.a = a, !.b = b, !.panic = TRUE]
                 ELSE /\ panicked' = FALSE
                      /\ call' = [NoCall EXCEPT !.op = "MultiplyMatrices",
                                                !.args = <<left, right>>,
                                                !.a = a, !.b = b,
                                                !.ret = MultiplyMatrices(a, b),
                                                !.depth = IF "prev" \in {left, right}
                                                          THEN call.depth + 1 ELSE 0]
    /\ UNCHANGED <<ma, mb, heap, nCalls, glVars, appVars>>

\* (the transformed vertices stored into a new slice, which is returned)
CallTransformVertices_Copy ==
    /\ ~panicked
    /\ nCalls < MaxCalls
    /\ \E ref \in 1..Len(heap) :
          IF TransformVerticesPanics(heap[ref], ma)
          THEN /\ panicked' = TRUE
               /\ call' = [NoCall EXCEPT !.op = "TransformVertices", !.a = ma,
                                         !.pre = heap, !.arg = ref, !.panic = TRUE]
               /\ heap' = heap
          ELSE /\ panicked' = FALSE
               /\ call' = [NoCall EXCEPT !.op = "TransformVertices", !.a = ma,
                                         !.pre = heap, !.arg = ref,
                                         !.retRef = Len(heap) + 1]
               /\ heap' = Append(heap, TransformVertices(heap[ref], ma))
    /\ nCalls' = nCalls + 1
    /\ UNCHANGED <<ma, mb, glVars, appVars>>

\* TransformVertices(coords, ma), coords being the slice at reference ref: the
\* loop stores into that slice, and the slice itself is returned
CallTransformVertices ==
    /\ ~panicked
    /\ nCalls < MaxCalls
    /\ \E ref \in 1..Len(heap) :
          IF TransformVerticesPanics(heap[ref], ma)
          THEN /\ panicked' = TRUE
               /\ call' = [NoCall EXCEPT !.op = "TransformVertices", !.a = ma,
                                         !.pre = heap, !.arg = ref, !.panic = TRUE]
               /\ heap' = heap
          ELSE /\ panicked' = FALSE
               /\ call' = [NoCall EXCEPT !.op = "TransformVertices", !.a = ma,
                                         !.pre = heap, !.arg = ref, !.retRef = ref]
               /\ heap' = [heap EXCEPT ![ref] = TransformVertices(heap[ref], ma)]
    /\ nCalls' = nCalls + 1
    /\ UNCHANGED <<ma, mb, glVars, appVars>>

\* applyMatrixToVec3s(coords, ma): make() allocates the slice that is returned
CallapplyMatrixToVec3s ==
    /\ ~panicked
    /\ nCalls < MaxCalls
    /\ \E ref \in 1..Len(heap) :
          IF applyMatrixToVec3sPanics(heap[ref], ma)
          THEN /\ panicked' = TRUE
               /\ call' = [NoCall EXCEPT !.op = "applyMatrixToVec3s", !.a = ma,
                                         !.pre = heap, !.arg = ref, !.panic = TRUE]
               /\ heap' = heap
          ELSE /\ panicked' = FALSE
               /\ call' = [NoCall EXCEPT !.op = "applyMatrixToVec3s", !.a = ma,
                                         !.pre = heap, !.arg = ref,
                                         !.retRef = Len(heap) + 1]
               /\ heap' = Append(heap, applyMatrixToVec3s(heap[ref], ma))
    /\ nCalls' = nCalls + 1
    /\ UNCHANGED <<ma, mb, glVars, appVars>>

\* the vectors handed to the Vec3 functions: the vectors of the tests, a vector
\* of huge components (3*2^96, 4*2^96, 0), one of tiny components
\* (3*2^-96, 4*2^-96, 0), and a slice that is no Vec3
Vecs ==
    { Vec3(0, 0, 0), Vec3(1, 0, 0), Vec3(0, 1, 0), Vec3(3, 4, 0), Vec3(1, 2, 3), Vec3(4, -5, 6),
      << <<3, 1, 1>>, <<4, 1, 1>>, Zero >>,
      << <<3, 1, -1>>, <<4, 1, -1>>, Zero >>,
      << I(1), I(2) >> }

\* a call of a Vec3 function: it panics, or returns ret
VecCall(op, args, panics, ret) ==
    /\ panicked' = panics
    /\ call' = IF panics
               THEN [NoCall EXCEPT !.op = op, !.args = args, !.panic = TRUE]
               ELSE [NoCall EXCEPT !.op = op, !.args = args, !.ret = ret]
    /\ UNCHANGED <<ma, mb, heap, nCalls, glVars, appVars>>

CallSubtract ==
    /\ ~panicked
    /\ \E a \in Vecs, b \in Vecs :
           IF SubtractPanics(a, b) THEN VecCall("Subtract", <<a, b>>, TRUE, <<>>)
           ELSE VecCall("Subtract", <<a, b>>, FALSE, Subtract(a, b))

CallNormalize ==
    /\ ~panicked
    /\ \E v \in Vecs :
           IF NormalizePanics(v) THEN VecCall("Normalize", <<v>>, TRUE, <<>>)
           ELSE /\ SqrtDefined(SquaredLength(v))
                /\ VecCall("Normalize", <<v>>, FALSE, Normalize(v))

CallCross ==
    /\ ~panicked
    /\ \E a \in Vecs, b \in Vecs :
           IF CrossPanics(a, b) THEN VecCall("Cross", <<a, b>>, TRUE, <<>>)
           ELSE VecCall("Cross", <<a, b>>, FALSE, Cross(a, b))

CallDot ==
    /\ ~panicked
    /\ \E a \in Vecs, b \in Vecs :
           IF DotPanics(a, b) THEN VecCall("Dot", <<a, b>>, TRUE, <<>>)
           ELSE VecCall("Dot", <<a, b>>, FALSE, Dot(a, b))

\* the center and up arguments handed to LookAt next to an eye drawn from Vecs:
\* the origin and (0, 2, 0) as centers, (0, 1, 0) as up, and a slice that is no Vec3
LookAtCenters == { Vec3(0, 0, 0), Vec3(0, 2, 0), << I(1), I(2) >> }

LookAtUps == { Vec3(0, 1, 0), << I(0), I(1) >> }

\* view := LookAt(eye, center, up), the result kept in no Mat4 variable
CallLookAtVecs ==
    /\ ~panicked
    /\ \E eye \in Vecs, center \in LookAtCenters, up \in LookAtUps :
           IF LookAtPanics(eye, center, up)
           THEN VecCall("LookAt", <<eye, center, up>>, TRUE, <<>>)
           ELSE /\ LookAtDefined(eye, center, up)
                /\ VecCall("LookAt", <<eye, center, up>>, FALSE, LookAt(eye, center, up))

(***************************************************************************)
(* The model-view-projection composition of renderFrame and of             *)
(* TestMVPExampleFromREADME: ma is the projection matrix, mb the view      *)
(* matrix, and the model matrix is a local of the caller.                  *)
(***************************************************************************)
\* the projection matrices: Perspective on near > 0, far > near
ProjMats ==
    { Perspective(fov, aspect, nearFar[1], nearFar[2]) :
          fov \in Fovs, aspect \in Aspects,
          nearFar \in { p \in NearFars : FGt(p[2], p[1]) } }

\* the view matrices: LookAt at the origin from each eye position
ViewMats == { LookAt(eye, Vec3(0, 0, 0), Vec3(0, 1, 0)) : eye \in Eyes }

\* the model matrices a caller builds: Identity(), or RotateY(angle)
ModelChoices == { <<"Identity">> } \cup { <<"RotateY", angle>> : angle \in Angles }

ModelMatrix(model) == IF model[1] = "Identity" THEN Identity ELSE RotateY(model[2])

\* viewModelMatrix := MultiplyMatrices(viewMatrix, modelMatrix)
CallMultiplyViewModel ==
    /\ ~panicked
    /\ call.op = "none" \/ call.depth = 1
    /\ \E model \in ModelChoices :
          LET modelMatrix == ModelMatrix(model)
          IN  /\ ~MultiplyMatricesPanics(mb, modelMatrix)
              /\ call' = [NoCall EXCEPT !.op = "MultiplyMatrices", !.args = model,
                                        !.a = mb, !.b = modelMatrix,
                                        !.ret = MultiplyMatrices(mb, modelMatrix)]
    /\ UNCHANGED <<ma, mb, heap, nCalls, panicked, glVars, appVars>>

\* mvpMatrix := MultiplyMatrices(projectionMatrix, viewModelMatrix)
CallMultiplyProjection ==
    /\ ~panicked
    /\ call.op = "MultiplyMatrices" /\ call.depth = 0
    /\ ~MultiplyMatricesPanics(ma, call.ret)
    /\ call' = [call EXCEPT !.a = ma, !.b = call.ret,
                            !.ret = MultiplyMatrices(ma, call.ret), !.depth = 1]
    /\ UNCHANGED <<ma, mb, heap, nCalls, panicked, glVars, appVars>>

(***************************************************************************)
(* The upload bridge.  Host memory is modelled by its bit patterns: an     *)
(* element of a []float32, []uint16, ... is the natural number its bytes   *)
(* spell, and the unsafe.Slice cast of UploadSliceToGL reads those bytes   *)
(* in the little-endian order of the wasm target.                          *)
(***************************************************************************)
Targets == { "ARRAY_BUFFER", "ELEMENT_ARRAY_BUFFER" }

Usages == { "STATIC_DRAW", "DYNAMIC_DRAW" }

\* the element kinds UploadSliceToGL is handed; the last two are unsupported
ElemKinds == { "float32", "uint16", "uint32", "float64", "uint8" }

\* unsafe.Sizeof of an element
ElemSize(kind) ==
    CASE kind = "float32" -> 4
      [] kind = "uint16" -> 2
      [] kind = "uint32" -> 4
      [] kind = "float64" -> 8
      [] kind = "uint8" -> 1

\* byte j (0 = lowest) of the bit pattern e
ByteOf(e, j) == IF j >= 4 THEN 0 ELSE (e \div (256 ^ j)) % 256

\* element i of the backing array of kind: every byte of it differs
BackingElem(kind, i) ==
    IF ElemSize(kind) = 1 THEN 1 + i
    ELSE IF ElemSize(kind) = 2 THEN 258 + i * 514
    ELSE 16909060 + i * 67372036

\* the backing array: longer than any slice taken of it
Backing(kind) == [i \in 1..(MaxLen + 3) |-> BackingElem(kind, i - 1)]

\* the bytes of host memory from element lo of the backing array on
MemoryFrom(kind, lo) ==
    [n \in 1..((MaxLen + 3 - lo) * ElemSize(kind)) |->
        ByteOf(Backing(kind)[lo + 1 + ((n - 1) \div ElemSize(kind))],
               (n - 1) % ElemSize(kind))]

\* the values handed as data: the slices backing[lo:lo+n], and two values that are no slice
HostData ==
    { [ kind |-> "slice", elem |-> k, lo |-> lo,
        elems |-> SubSeq(Backing(k), lo + 1, lo + n) ] :
        k \in ElemKinds, lo \in 0..1, n \in 0..MaxLen }
    \cup { [ kind |-> "int", elem |-> "none", lo |-> 0, elems |-> <<>> ],
           [ kind |-> "invalid", elem |-> "none", lo |-> 0, elems |-> <<>> ] }

\* (the check without its v.Len() == 0 half)
NotNonEmptySlice_NoLenCheck(data) == data.kind # "slice"

\* v.Kind() != reflect.Slice || v.Len() == 0
NotNonEmptySlice(data) == data.kind # "slice" \/ Len(data.elems) = 0

\* the default branch of the switch on v.Type().Elem().Kind()
UnsupportedElem(data) == data.elem \notin { "float32", "uint16", "uint32" }

\* (every case computing v.Len() * 4)
ByteLen_AlwaysFour(data) == Len(data.elems) * 4

\* byteLen, as the matching case of the switch sets it
ByteLen(data) ==
    CASE data.elem = "float32" -> Len(data.elems) * 4
      [] data.elem = "uint16" -> Len(data.elems) * 2
      [] data.elem = "uint32" -> Len(data.elems) * 4

\* (the uint32 case naming the float view)
JsTypedArrayType_Uint32AsFloat(data) ==
    CASE data.elem = "float32" -> "Float32Array"
      [] data.elem = "uint16" -> "Uint16Array"
      [] data.elem = "uint32" -> "Float32Array"

\* jsTypedArrayType, as the matching case of the switch sets it
JsTypedArrayType(data) ==
    CASE data.elem = "float32" -> "Float32Array"
      [] data.elem = "uint16" -> "Uint16Array"
      [] data.elem = "uint32" -> "Uint32Array"

\* BYTES_PER_ELEMENT of a JavaScript typed array
BytesPerElement(type) ==
    CASE type = "Float32Array" -> 4
      [] type = "Uint16Array" -> 2
      [] type = "Uint32Array" -> 4
      [] type = "Uint8Array" -> 1

\* unsafe.Slice((*byte)(unsafe.Pointer(v.Index(0).UnsafeAddr())), byteLen)
ByteSlice(data, byteLen) == SubSeq(MemoryFrom(data.elem, data.lo), 1, byteLen)

\* new Uint8Array(len(byteSlice)) filled by js.CopyBytesToJS
JsBytes(byteSlice) == [n \in 1..Len(byteSlice) |-> byteSlice[n]]

\* new <type>(jsBytes.buffer): a view of the whole buffer; JavaScript throws a
\* RangeError when the byte length is no multiple of the element size
TypedArrayThrows(type, jsBytes) == Len(jsBytes) % BytesPerElement(type) # 0

TypedArray(type, jsBytes) ==
    [ type |-> type, bytes |-> jsBytes, length |-> Len(jsBytes) \div BytesPerElement(type) ]

\* (the upload issued before the buffer is bound)
BackendCalls_UploadBeforeBind(target, buffer, view, usage) ==
    << [ fn |-> "createBuffer", target |-> "", buffer |-> buffer, view |-> <<>>, usage |-> "" ],
       [ fn |-> "bufferData", target |-> target, buffer |-> 0, view |-> view, usage |-> usage ],
       [ fn |-> "bindBuffer", target |-> target, buffer |-> buffer, view |-> <<>>, usage |-> "" ] >>

\* the three backend calls of one upload, in the order the code issues them
BackendCalls(target, buffer, view, usage) ==
    << [ fn |-> "createBuffer", target |-> "", buffer |-> buffer, view |-> <<>>, usage |-> "" ],
       [ fn |-> "bindBuffer", target |-> target, buffer |-> buffer, view |-> <<>>, usage |-> "" ],
       [ fn |-> "bufferData", target |-> target, buffer |-> 0, view |-> view, usage |-> usage ] >>

NoUpload ==
    [ data |-> [ kind |-> "invalid", elem |-> "none", lo |-> 0, elems |-> <<>> ],
      target |-> "", usage |-> "", outcome |-> "none", ret |-> 0, callsBefore |-> 0,
      fn |-> "" ]

\* the backend's state after it has received calls (bufferData fills the buffer
\* bound to its target)
RECURSIVE Backend(_, _, _, _)
Backend(calls, next, bound, store) ==
    IF calls = <<>> THEN [ next |-> next, bound |-> bound, store |-> store ]
    ELSE LET c == Head(calls)
         IN  CASE c.fn = "createBuffer" ->
                    Backend(Tail(calls), next + 1, bound, Append(store, <<>>))
               [] c.fn = "bindBuffer" ->
                    Backend(Tail(calls), next, [bound EXCEPT ![c.target] = c.buffer], store)
               [] c.fn = "bufferData" ->
                    Backend(Tail(calls), next, bound,
                            IF bound[c.target] = 0 THEN store
                            ELSE [store EXCEPT ![bound[c.target]] =
                                     [ view |-> c.view, usage |-> c.usage ]])

\* (the buffer created and bound before data is examined)
UploadSliceToGL_BindFirst ==
    /\ ~panicked
    /\ nUploads < MaxUploads
    /\ \E data \in HostData, target \in Targets, usage \in Usages :
          LET failed == [NoUpload EXCEPT !.fn = "UploadSliceToGL",
                                         !.data = data, !.target = target, !.usage = usage,
                                         !.outcome = "panic",
                                         !.callsBefore = Len(glCalls)]
              buffer == glNextBuffer + 1
              rejected == NotNonEmptySlice(data) \/ UnsupportedElem(data)
              view == IF rejected THEN <<>>
                      ELSE TypedArray(JsTypedArrayType(data),
                                      JsBytes(ByteSlice(data, ByteLen(data))))
              issued == BackendCalls(target, buffer, view, usage)
              sent == IF rejected THEN SubSeq(issued, 1, 2) ELSE issued
              after == Backend(sent, glNextBuffer, glBound, glStore)
          IN  /\ panicked' = rejected
              /\ upCall' = IF rejected THEN failed
                           ELSE [failed EXCEPT !.outcome = "returned", !.ret = buffer]
              /\ glCalls' = glCalls \o sent
              /\ glNextBuffer' = after.next
              /\ glBound' = after.bound
              /\ glStore' = after.store
              /\ nUploads' = IF rejected THEN nUploads ELSE nUploads + 1
    /\ UNCHANGED <<mathVars, appVars>>

UploadSliceToGL ==
    /\ ~panicked
    /\ nUploads < MaxUploads
    /\ \E data \in HostData, target \in Targets, usage \in Usages :
          LET failed == [NoUpload EXCEPT !.fn = "UploadSliceToGL",
                                         !.data = data, !.target = target, !.usage = usage,
                                         !.outcome = "panic",
                                         !.callsBefore = Len(glCalls)]
          IN
          IF NotNonEmptySlice(data) \/ UnsupportedElem(data)
          THEN /\ panicked' = TRUE
               /\ upCall' = failed
               /\ UNCHANGED <<glCalls, glNextBuffer, glBound, glStore, nUploads>>
          ELSE LET byteLen == ByteLen(data)
                   byteSlice == ByteSlice(data, byteLen)
                   type == JsTypedArrayType(data)
                   buffer == glNextBuffer + 1
                   jsBytes == JsBytes(byteSlice)
                   issued == BackendCalls(target, buffer, TypedArray(type, jsBytes), usage)
               IN  IF TypedArrayThrows(type, jsBytes)
                   THEN \* createBuffer and bindBuffer were called before the throw
                        LET after == Backend(SubSeq(issued, 1, 2), glNextBuffer, glBound, glStore)
                        IN  /\ panicked' = TRUE
                            /\ upCall' = failed
                            /\ glCalls' = glCalls \o SubSeq(issued, 1, 2)
                            /\ glNextBuffer' = after.next
                            /\ glBound' = after.bound
                            /\ glStore' = after.store
                            /\ UNCHANGED nUploads
                   ELSE LET after == Backend(issued, glNextBuffer, glBound, glStore)
                        IN  /\ panicked' = FALSE
                            /\ upCall' = [failed EXCEPT !.outcome = "returned", !.ret = buffer]
                            /\ glCalls' = glCalls \o issued
                            /\ glNextBuffer' = after.next
                            /\ glBound' = after.bound
                            /\ glStore' = after.store
                            /\ nUploads' = nUploads + 1
    /\ UNCHANGED <<mathVars, appVars>>

(***************************************************************************)
(* The vertex-buffer helper createVBO of webgl_utils.go, in its two        *)
(* versions: sliceToJsFloat32Array as a view of the module's memory, and   *)
(* as a copy of the slice's bytes.                                         *)
(***************************************************************************)
\* the []float32 slices handed to createVBO: backing[lo:lo+n]
VboData ==
    { [ kind |-> "slice", elem |-> "float32", lo |-> lo,
        elems |-> SubSeq(Backing("float32"), lo + 1, lo + n) ] :
        lo \in 0..2, n \in 0..MaxLen }

\* js.Null()
JsNull == [ type |-> "null", bytes |-> <<>>, length |-> 0 ]

\* sliceToJsFloat32Array: null for an empty slice, else a Float32Array of
\* len(slice) elements over the memory of the slice
sliceToJsFloat32Array(slice) ==
    IF Len(slice.elems) = 0 THEN JsNull
    ELSE [ type |-> "Float32Array",
           bytes |-> ByteSlice(slice, Len(slice.elems) * 4),
           length |-> Len(slice.elems) ]

\* sliceToJsFloat32Array, copying: a Uint8Array of len(slice)*4 bytes is filled
\* from the slice's memory, and a Float32Array made of its buffer
sliceToJsFloat32ArrayCopy(slice) ==
    TypedArray("Float32Array", JsBytes(ByteSlice(slice, Len(slice.elems) * 4)))

\* createVBO(gl, data), fn being the version called and jsArray the array its
\* sliceToJsFloat32Array made of data: createBuffer,
\* bindBuffer, bufferData, and the buffer is returned.  WebGL answers
\* bufferData(target, null, usage) with the error INVALID_VALUE, which no
\* caller sees, and leaves the data store as it was.
CreateVBOWith(fn, data, jsArray) ==
    LET buffer == glNextBuffer + 1
        issued == BackendCalls("ARRAY_BUFFER", buffer, jsArray, "STATIC_DRAW")
        bound == Backend(SubSeq(issued, 1, 2), glNextBuffer, glBound, glStore)
        after == IF jsArray = JsNull THEN bound
                 ELSE Backend(issued, glNextBuffer, glBound, glStore)
    IN  /\ ~panicked
        /\ nUploads < MaxUploads
        /\ glCalls' = glCalls \o issued
        /\ glNextBuffer' = after.next
        /\ glBound' = after.bound
        /\ glStore' = after.store
        /\ nUploads' = nUploads + 1
        /\ upCall' = [NoUpload EXCEPT !.fn = fn, !.data = data, !.target = "ARRAY_BUFFER",
                                      !.usage = "STATIC_DRAW", !.outcome = "returned",
                                      !.ret = buffer, !.callsBefore = Len(glCalls)]
        /\ UNCHANGED <<mathVars, panicked, appVars>>

createVBO ==
    \E data \in VboData : CreateVBOWith("createVBO", data, sliceToJsFloat32Array(data))

createVBOCopy ==
    \E data \in VboData :
        CreateVBOWith("createVBOCopy", data, sliceToJsFloat32ArrayCopy(data))


(***************************************************************************)
(* The animation loop of main(): update(), the resize handler and the      *)
(* frame callback renderFrame.  ma is projMatrix and mb is viewMatrix.     *)
(* A callback runs to completion: the JavaScript event loop starts no      *)
(* other callback before it returns.                                       *)
(*                                                                         *)
(* update() builds Perspective(pi/4, 1, 0.1, 100) and LookAt from the eye  *)
(* (3, 3, 3), and renderFrame advances angle by 0.01.  tan(pi/8), the      *)
(* length of (3, 3, 3) and the sines of the multiples of 0.01 are          *)
(* irrational; the model takes the fov pi/2, the eye (3, 0, 4) and the     *)
(* angles of Angles, on which the library is exact.  What a frame sends    *)
(* and draws, and in which order, does not depend on these values.         *)
(***************************************************************************)
MaxFrames == 3
MaxResizes == 2

\* (innerWidth, innerHeight) of the window
WindowSizes == { <<4, 3>>, <<2, 5>> }

\* a call received by the WebGL context
GlCall(fn, args) == [ fn |-> fn, args |-> args ]

\* the handles UploadSliceToGL returned for the six scene buffers, in the order
\* of the uploads
pointPositionBuffer == 1
pointColorBuffer == 2
axisPositionBuffer == 3
axisColorBuffer == 4
circlePositionBuffer == 5
circleColorBuffer == 6

\* math.Min(winWidth, winHeight)
MinSize(win) == IF win[1] < win[2] THEN win[1] ELSE win[2]

\* the projection and view matrices update() assigns
UpdateProjMatrix == Perspective("pi/2", I(1), F(1, 10), I(100))

UpdateViewMatrix == LookAt(Vec3(3, 0, 4), Vec3(0, 0, 0), Vec3(0, 1, 0))

\* update(): the canvas is made square, the viewport follows it, and both
\* matrices are assigned
Update(win) ==
    LET size == MinSize(win)
    IN  /\ canvasSize' = size
        /\ glCalls' = Append(glCalls, GlCall("viewport", <<0, 0, size, size>>))
        /\ ma' = UpdateProjMatrix
        /\ mb' = UpdateViewMatrix

\* main: update()
MainUpdate ==
    /\ ~panicked
    /\ mainPc = "update"
    /\ \E win \in WindowSizes : Update(win)
    /\ mainPc' = "addEventListener"
    /\ UNCHANGED <<call, heap, nCalls, panicked, glNextBuffer, glBound, glStore, nUploads, upCall,
                   rafPending, resizeListening, frameAngle, nFrames, nResizes, camVars>>

\* main: addEventListener("resize", resizeHandler)
MainAddEventListener ==
    /\ ~panicked
    /\ mainPc = "addEventListener"
    /\ resizeListening' = TRUE
    /\ mainPc' = "requestAnimationFrame"
    /\ UNCHANGED <<mathVars, panicked, glVars, rafPending, frameAngle, canvasSize, nFrames, nResizes, camVars>>

\* main: requestAnimationFrame(renderFrame), after which main blocks for ever
MainRequestAnimationFrame ==
    /\ ~panicked
    /\ mainPc = "requestAnimationFrame"
    /\ rafPending' = TRUE
    /\ mainPc' = "blocked"
    /\ UNCHANGED <<mathVars, panicked, glVars, resizeListening, frameAngle, canvasSize, nFrames, nResizes, camVars>>

\* the resize event: resizeHandler calls update()
resizeHandler ==
    /\ ~panicked
    /\ resizeListening
    /\ nResizes < MaxResizes
    /\ \E win \in WindowSizes : Update(win)
    /\ nResizes' = nResizes + 1
    /\ call' = [NoCall EXCEPT !.op = "resizeHandler"]
    /\ UNCHANGED <<heap, nCalls, panicked, glNextBuffer, glBound, glStore, nUploads, upCall,
                   mainPc, rafPending, resizeListening, frameAngle, nFrames, camVars>>

\* angle += 0.01, and angle -= 2*math.Pi once it has passed 2*math.Pi: the
\* next of the model's angles, and the first one again after the last
AdvanceAngle(a) ==
    CASE a = "0" -> "atan43"
      [] a = "atan43" -> "pi/2"
      [] a = "pi/2" -> "0"

\* the Float32Array made of the bytes of the matrix: len(m)*4 bytes, four to an element
MvpView(m) == [i \in 1..((Len(m) * 4) \div 4) |-> m[i]]

\* drawObject: both buffers are bound and pointed at, then the object is drawn
drawObject(posBuf, colorBuf, drawMode, vertexCount) ==
    << GlCall("bindBuffer", <<"ARRAY_BUFFER", posBuf>>),
       GlCall("vertexAttribPointer", <<"position", 3>>),
       GlCall("bindBuffer", <<"ARRAY_BUFFER", colorBuf>>),
       GlCall("vertexAttribPointer", <<"color", 3>>),
       GlCall("drawArrays", <<drawMode, 0, vertexCount>>) >>

\* the three objects of the scene
DrawScene ==
    drawObject(pointPositionBuffer, pointColorBuffer, "POINTS", "numElements")
    \o drawObject(axisPositionBuffer, axisColorBuffer, "TRIANGLES", "numAxisVertices")
    \o drawObject(circlePositionBuffer, circleColorBuffer, "LINES", "numCircleVertices")

\* (the scene drawn before the matrix is sent)
FrameCalls_DrawFirst(finalMVPMatrix) ==
    << GlCall("clear", <<>>) >> \o DrawScene
    \o << GlCall("uniformMatrix4fv", <<"mvpLoc", FALSE, MvpView(finalMVPMatrix)>>) >>

\* the WebGL calls of one frame, in the order renderFrame makes them
FrameCalls(finalMVPMatrix) ==
    << GlCall("uniformMatrix4fv", <<"mvpLoc", FALSE, MvpView(finalMVPMatrix)>>),
       GlCall("clear", <<>>) >>
    \o DrawScene

\* the frame callback: a panic of MultiplyMatrices ends the program before any
\* WebGL call of the frame
renderFrame ==
    /\ ~panicked
    /\ rafPending
    /\ nFrames < MaxFrames
    /\ frameAngle' = AdvanceAngle(frameAngle)
    /\ nFrames' = nFrames + 1
    /\ LET modelMatrix == RotateY(frameAngle')
       IN  IF MultiplyMatricesPanics(mb, modelMatrix) \/ Len(ma) # 16
           THEN /\ panicked' = TRUE
                /\ call' = [NoCall EXCEPT !.op = "renderFrame", !.a = ma, !.b = mb,
                                          !.panic = TRUE]
                /\ rafPending' = FALSE
                /\ UNCHANGED <<glCalls, glBound>>
           ELSE LET viewModelMatrix == MultiplyMatrices(mb, modelMatrix)
                    finalMVPMatrix == MultiplyMatrices(ma, viewModelMatrix)
                IN  /\ panicked' = FALSE
                    /\ call' = [NoCall EXCEPT !.op = "renderFrame", !.a = ma, !.b = mb,
                                              !.ret = finalMVPMatrix]
                    /\ glCalls' = glCalls \o FrameCalls(finalMVPMatrix)
                    /\ glBound' = [glBound EXCEPT !["ARRAY_BUFFER"] = circleColorBuffer]
                    /\ rafPending' = TRUE
    /\ UNCHANGED <<ma, mb, heap, nCalls, glNextBuffer, glStore, nUploads, upCall,
                   mainPc, resizeListening, canvasSize, nResizes, camVars>>


(***************************************************************************)
(* The orbit camera.  The mouse coordinates are float64 integers; the      *)
(* camera's float32 fields are rationals as above.  The two constants      *)
(* made of math.Pi are replaced by decimal fractions: 2*math.Pi            *)
(* (6.2831853...) by 6.2832, and math.Pi/2*0.999 (1.5692255...) by 1.5693, *)
(* which is still below 1.57 < math.Pi/2.                                  *)
(***************************************************************************)
MaxEvents == 6

TwoPi == F(62832, 10000)

RotationLimit == F(15693, 10000)

\* a decimal fraction below math.Pi/2 (1.5707963...)
BelowHalfPi == F(157, 100)

\* Go's < on float32
FLt(x, y) == FGt(y, x)

\* math.Mod(x, y) on a positive finite y: x - y*trunc(x/y), NaN on an infinite x
FMod(x, y) ==
    IF ~IsFinite(x) THEN NaN
    ELSE LET quotient == Sgn(x[1]) * ((Abs(x[1]) * y[2]) \div (x[2] * y[1]))
         IN  FSub(x, FMul(I(quotient), y))

\* math.Min and math.Max (NaN if an argument is NaN)
FMin(x, y) == IF IsNaN(x) \/ IsNaN(y) THEN NaN ELSE IF FLt(x, y) THEN x ELSE y

FMax(x, y) == IF IsNaN(x) \/ IsNaN(y) THEN NaN ELSE IF FGt(x, y) THEN x ELSE y

NewCamera(distance) ==
    [ distance |-> distance,
      rotationX |-> F(3, 10),
      rotationY |-> F(-1, 2),
      zoom |-> I(1),
      velocityX |-> Zero,
      velocityY |-> Zero,
      damping |-> F(9, 10),
      isMouseDown |-> FALSE,
      lastMouseX |-> 0,
      lastMouseY |-> 0,
      minRotationX |-> FNeg(RotationLimit),
      maxRotationX |-> RotationLimit,
      minZoom |-> F(1, 10),
      maxZoom |-> I(10) ]

\* effectiveDistance := c.distance / c.zoom of GetViewMatrix
EffectiveDistance(c) == FDiv(c.distance, c.zoom)

\* (the lower limit not enforced)
clampRotation_UpperOnly(c) ==
    IF FGt(c.rotationX, c.maxRotationX) THEN [c EXCEPT !.rotationX = c.maxRotationX] ELSE c

clampRotation(c) ==
    LET upper == IF FGt(c.rotationX, c.maxRotationX)
                 THEN [c EXCEPT !.rotationX = c.maxRotationX] ELSE c
    IN  IF FLt(upper.rotationX, upper.minRotationX)
        THEN [upper EXCEPT !.rotationX = upper.minRotationX] ELSE upper

wrapAngles(c) ==
    LET wrapped == FMod(c.rotationY, TwoPi)
    IN  [c EXCEPT !.rotationY = IF FLt(wrapped, Zero) THEN FAdd(wrapped, TwoPi) ELSE wrapped]

\* (the inertia applied during a drag as well)
ApplyInertia_WhileDragging(c) ==
    IF FNe(c.velocityX, Zero) \/ FNe(c.velocityY, Zero)
    THEN LET rotated == [c EXCEPT !.rotationY = FAdd(c.rotationY, FMul(c.velocityX, F(1, 100))),
                                  !.rotationX = FAdd(c.rotationX, FMul(c.velocityY, F(1, 100)))]
             wrapped == wrapAngles(rotated)
             damped == [wrapped EXCEPT !.velocityX = FMul(wrapped.velocityX, wrapped.damping),
                                       !.velocityY = FMul(wrapped.velocityY, wrapped.damping)]
         IN  clampRotation(damped)
    ELSE c

ApplyInertia(c) ==
    IF ~c.isMouseDown /\ (FNe(c.velocityX, Zero) \/ FNe(c.velocityY, Zero))
    THEN LET rotated == [c EXCEPT !.rotationY = FAdd(c.rotationY, FMul(c.velocityX, F(1, 100))),
                                  !.rotationX = FAdd(c.rotationX, FMul(c.velocityY, F(1, 100)))]
             wrapped == wrapAngles(rotated)
             damped == [wrapped EXCEPT !.velocityX = FMul(wrapped.velocityX, wrapped.damping),
                                       !.velocityY = FMul(wrapped.velocityY, wrapped.damping)]
         IN  clampRotation(damped)
    ELSE c

HandleMouseDown(c, x, y) ==
    [c EXCEPT !.isMouseDown = TRUE, !.lastMouseX = x, !.lastMouseY = y,
              !.velocityX = Zero, !.velocityY = Zero]

HandleMouseUp(c) == [c EXCEPT !.isMouseDown = FALSE]

HandleMouseMove(c, x, y) ==
    IF ~c.isMouseDown THEN c
    ELSE LET dx == x - c.lastMouseX
             dy == y - c.lastMouseY
             rotated == [c EXCEPT !.rotationY = FSub(c.rotationY, FMul(I(dx), F(1, 100))),
                                  !.rotationX = FAdd(c.rotationX, FMul(I(dy), F(1, 100)))]
             clamped == clampRotation(wrapAngles(rotated))
         IN  [clamped EXCEPT !.velocityX = FMul(FNeg(I(dx)), F(1, 2)),
                             !.velocityY = FMul(I(dy), F(1, 2)),
                             !.lastMouseX = x, !.lastMouseY = y]

\* (the zoom left as the wheel made it)
HandleMouseWheel_NoClamp(c, deltaY) ==
    IF deltaY < 0 THEN [c EXCEPT !.zoom = FMul(c.zoom, F(11, 10))]
    ELSE [c EXCEPT !.zoom = FDiv(c.zoom, F(11, 10))]

HandleMouseWheel(c, deltaY) ==
    LET zoomed == IF deltaY < 0 THEN FMul(c.zoom, F(11, 10)) ELSE FDiv(c.zoom, F(11, 10))
    IN  [c EXCEPT !.zoom = FMax(c.minZoom, FMin(zoomed, c.maxZoom))]

\* the mouse positions (clientX, clientY) and the wheel deltas of the events
MousePositions == { <<0, 0>>, <<100, 20>>, <<-100, 220>> }

WheelDeltas == { -100, 100 }

\* the camera_distance handed to NewCamera
CameraDistances == { I(3) }

\* the zoom of a camera: 1 from NewCamera, and the two limits, which 25 wheel
\* events in one direction reach (1.1^25 > 10)
ZoomsReached == { I(1), I(10), F(1, 10) }

\* a call of a method of the Camera, which leaves the camera as after
CameraCall(op, args, after) ==
    /\ ~panicked
    /\ nEvents < MaxEvents
    /\ camera' = after
    /\ nEvents' = nEvents + 1
    /\ call' = [NoCall EXCEPT !.op = op, !.args = args]
    /\ UNCHANGED <<ma, mb, heap, nCalls, panicked, glVars, frameVars>>

CallHandleMouseDown ==
    \E pos \in MousePositions :
        CameraCall("HandleMouseDown", pos, HandleMouseDown(camera, pos[1], pos[2]))

CallHandleMouseUp == CameraCall("HandleMouseUp", <<>>, HandleMouseUp(camera))

CallHandleMouseMove ==
    \E pos \in MousePositions :
        CameraCall("HandleMouseMove", pos, HandleMouseMove(camera, pos[1], pos[2]))

CallHandleMouseWheel ==
    \E deltaY \in WheelDeltas :
        CameraCall("HandleMouseWheel", <<deltaY>>, HandleMouseWheel(camera, deltaY))

CallApplyInertia == CameraCall("ApplyInertia", <<>>, ApplyInertia(camera))


(***************************************************************************)
(* Specifications.                                                         *)
(***************************************************************************)
\* the graphics backend before any call
InitGL ==
    /\ glCalls = <<>>
    /\ glNextBuffer = 0
    /\ glBound = [t \in Targets |-> 0]
    /\ glStore = <<>>
    /\ nUploads = 0
    /\ upCall = NoUpload

\* main() before update(), and a camera from NewCamera
InitApp ==
    /\ mainPc = "update"
    /\ rafPending = FALSE
    /\ resizeListening = FALSE
    /\ frameAngle = "0"
    /\ canvasSize = 0
    /\ nFrames = 0
    /\ nResizes = 0
    /\ camera \in { NewCamera(distance) : distance \in CameraDistances }
    /\ nEvents = 0

Init ==
    /\ ma = <<>>
    /\ mb = <<>>
    /\ call = NoCall
    /\ heap = <<>>
    /\ nCalls = 0
    /\ panicked = FALSE
    /\ InitGL
    /\ InitApp

\* the math library and its callers
Next ==
    \/ CallIdentity
    \/ CallTranslate
    \/ CallRotateX
    \/ CallRotateY
    \/ CallRotateZ
    \/ CallLookAt
    \/ CallPerspective
    \/ LoadLiteral
    \/ CallMultiplyMatrices

Spec == Init /\ [][Next]_vars

\* the vertex transforms: a matrix and a slice of vertices, transformed repeatedly
InitXform ==
    /\ ma \in XformMats
    /\ mb = <<>>
    /\ call = NoCall
    /\ heap \in { <<coords>> : coords \in CoordInputs }
    /\ nCalls = 0
    /\ panicked = FALSE
    /\ InitGL
    /\ InitApp

NextXform ==
    \/ CallTransformVertices
    \/ CallapplyMatrixToVec3s

SpecXform == InitXform /\ [][NextXform]_vars

\* the upload bridge and the graphics backend
NextUpload == UploadSliceToGL

SpecUpload == Init /\ [][NextUpload]_vars

\* the Vec3 functions and their callers
NextVec ==
    \/ CallSubtract
    \/ CallNormalize
    \/ CallCross
    \/ CallDot

SpecVec == Init /\ [][NextVec]_vars

\* the matrices and the coords slice of a caller that checks the library's panics:
\* a nil and a 16-element Mat4 in ma, a 16-element and a 3-element Mat4 in mb
ArityLeft == { <<>>, Identity }

ArityRight == { Counting, << I(1), I(2), I(3) >> }

ArityCoords == { Vec3(1, 2, -3), << I(1), I(2), I(3), I(4) >> }

\* every function that examines the length of its arguments, on arguments of
\* the right and of the wrong length
InitArity ==
    /\ ma \in ArityLeft
    /\ mb \in ArityRight
    /\ call = NoCall
    /\ heap \in { <<coords>> : coords \in ArityCoords }
    /\ nCalls = 0
    /\ panicked = FALSE
    /\ InitGL
    /\ InitApp

NextArity ==
    \/ CallSubtract
    \/ CallNormalize
    \/ CallCross
    \/ CallDot
    \/ CallLookAtVecs
    \/ CallMultiplyMatrices
    \/ CallTransformVertices

SpecArity == InitArity /\ [][NextArity]_vars

\* the vertex-buffer helper
NextVBO ==
    \/ createVBO
    \/ createVBOCopy

SpecVBO == Init /\ [][NextVBO]_vars

\* main() at update(): the six scene buffers are uploaded (their contents are not
\* modelled, the frame reads none of them), the last one is bound, and both
\* matrices are nil; glCalls holds the calls made from here on
InitFrame ==
    /\ ma = <<>>
    /\ mb = <<>>
    /\ call = NoCall
    /\ heap = <<>>
    /\ nCalls = 0
    /\ panicked = FALSE
    /\ glCalls = <<>>
    /\ glNextBuffer = circleColorBuffer
    /\ glBound = [t \in Targets |-> IF t = "ARRAY_BUFFER" THEN circleColorBuffer ELSE 0]
    /\ glStore = [n \in 1..circleColorBuffer |-> [ view |-> <<>>, usage |-> "STATIC_DRAW" ]]
    /\ nUploads = circleColorBuffer
    /\ upCall = NoUpload
    /\ InitApp

\* the start-up, then resize events and frames in any order
NextFrame ==
    \/ MainUpdate
    \/ MainAddEventListener
    \/ MainRequestAnimationFrame
    \/ resizeHandler
    \/ renderFrame

SpecFrame == InitFrame /\ [][NextFrame]_vars

\* the camera and its events
InitCamera ==
    /\ ma = <<>>
    /\ mb = <<>>
    /\ call = NoCall
    /\ heap = <<>>
    /\ nCalls = 0
    /\ panicked = FALSE
    /\ InitGL
    /\ mainPc = "update"
    /\ rafPending = FALSE
    /\ resizeListening = FALSE
    /\ frameAngle = "0"
    /\ canvasSize = 0
    /\ nFrames = 0
    /\ nResizes = 0
    /\ camera \in { [NewCamera(distance) EXCEPT !.zoom = zoom] :
                        distance \in CameraDistances, zoom \in ZoomsReached }
    /\ nEvents = 0

NextCamera ==
    \/ CallHandleMouseDown
    \/ CallHandleMouseUp
    \/ CallHandleMouseMove
    \/ CallHandleMouseWheel
    \/ CallApplyInertia

SpecCamera == InitCamera /\ [][NextCamera]_vars

\* the model-view-projection composition on a projection and a view matrix
InitMVP ==
    /\ ma \in ProjMats
    /\ mb \in ViewMats
    /\ call = NoCall
    /\ heap = <<>>
    /\ nCalls = 0
    /\ panicked = FALSE
    /\ InitGL
    /\ InitApp

NextMVP ==
    \/ CallMultiplyViewModel
    \/ CallMultiplyProjection

SpecMVP == InitMVP /\ [][NextMVP]_vars


(***************************************************************************)
(* Properties of the upload bridge, checked under SpecUpload.              *)
(***************************************************************************)
\* the indices of the backend calls of function fn
CallsOf(fn) == { n \in 1..Len(glCalls) : glCalls[n].fn = fn }

\* the view of the bufferData call of the invocation that returned last
UploadedView == glCalls[upCall.callsBefore + 3].view

\* element i (from 0) of a typed-array view, read back from its bytes
ViewElem(view, i) ==
    LET size == BytesPerElement(view.type)
        byte(j) == view.bytes[i * size + j + 1]
    IN  IF size = 2 THEN byte(0) + 256 * byte(1)
        ELSE byte(0) + 256 * byte(1) + 65536 * byte(2) + 16777216 * byte(3)

\* C1: an invocation that returns has issued createBuffer, bindBuffer(target, h)
\* and bufferData(target, view, usage), once each and in this order, with h the
\* handle createBuffer returned and the value returned, the caller's target in
\* both and the caller's usage hint; after n invocations that returned, n buffers
\* have been created, all different, and n uploads issued.
C1_CallSequence ==
    /\ upCall.outcome = "returned" =>
          LET k == upCall.callsBefore
          IN  /\ Len(glCalls) = k + 3
              /\ glCalls[k + 1].fn = "createBuffer"
              /\ glCalls[k + 1].buffer = upCall.ret
              /\ glCalls[k + 2].fn = "bindBuffer"
              /\ glCalls[k + 2].target = upCall.target
              /\ glCalls[k + 2].buffer = upCall.ret
              /\ glCalls[k + 3].fn = "bufferData"
              /\ glCalls[k + 3].target = upCall.target
              /\ glCalls[k + 3].usage = upCall.usage
              /\ glBound[upCall.target] = upCall.ret
              /\ glStore[upCall.ret] = [ view |-> glCalls[k + 3].view, usage |-> upCall.usage ]
    /\ Len(glCalls) = 3 * nUploads
    /\ Cardinality(CallsOf("createBuffer")) = nUploads
    /\ Cardinality(CallsOf("bindBuffer")) = nUploads
    /\ Cardinality(CallsOf("bufferData")) = nUploads
    /\ Cardinality({ glCalls[n].buffer : n \in CallsOf("createBuffer") }) = nUploads
    /\ glNextBuffer = nUploads

C1_Witness ==
    /\ nUploads = 2
    /\ upCall.outcome = "returned"
    /\ upCall.ret = 2
    /\ upCall.target = "ELEMENT_ARRAY_BUFFER"
    /\ upCall.usage = "DYNAMIC_DRAW"
    /\ glCalls[2].target = "ARRAY_BUFFER"

\* C2: an invocation that returns has transferred exactly N * element_size bytes
\* for its N elements (4 per float32, 2 per uint16, 4 per uint32), and these are
\* the bytes of the N elements, in order, with nothing between or after them.
C2_ByteExact ==
    upCall.outcome = "returned" =>
        LET data == upCall.data
            n == Len(data.elems)
            size == CASE data.elem = "float32" -> 4
                      [] data.elem = "uint16" -> 2
                      [] data.elem = "uint32" -> 4
            bytes == UploadedView.bytes
        IN  /\ Len(bytes) = n * size
            /\ \A i \in 0..(n - 1), j \in 0..(size - 1) :
                  bytes[i * size + j + 1] = (data.elems[i + 1] \div (256 ^ j)) % 256

C2_Witness ==
    /\ upCall.outcome = "returned"
    /\ upCall.data.elem = "uint16"
    /\ Len(upCall.data.elems) = MaxLen
    /\ upCall.data.lo = 1
    /\ Len(UploadedView.bytes) = 2 * MaxLen

\* C3: the typed view handed to bufferData has the element type of the host
\* array (Float32Array for float32, Uint16Array for uint16, Uint32Array for
\* uint32), as many elements as the host array, and the same element values.
C3_ViewType ==
    upCall.outcome = "returned" =>
        LET data == upCall.data
            view == UploadedView
        IN  /\ (data.elem = "float32") = (view.type = "Float32Array")
            /\ (data.elem = "uint16") = (view.type = "Uint16Array")
            /\ (data.elem = "uint32") = (view.type = "Uint32Array")
            /\ view.length = Len(data.elems)
            /\ \A i \in 0..(view.length - 1) : ViewElem(view, i) = data.elems[i + 1]

C3_Witness ==
    /\ upCall.outcome = "returned"
    /\ upCall.data.elem = "uint32"
    /\ UploadedView.type = "Uint32Array"
    /\ UploadedView.length = 2

\* C4: an invocation handed an empty array, an array of another element type
\* than float32, uint16, uint32, or no array at all, ends in a panic and returns
\* no buffer handle.
C4_RejectsBadInput ==
    ( /\ upCall.outcome # "none"
      /\ \/ upCall.data.kind # "slice"
         \/ Len(upCall.data.elems) = 0
         \/ upCall.data.elem \notin { "float32", "uint16", "uint32" } )
    => ( upCall.outcome = "panic" /\ upCall.ret = 0 /\ panicked )

C4_Witness ==
    /\ upCall.outcome = "panic"
    /\ upCall.data.kind = "slice"
    /\ upCall.data.elem = "float32"
    /\ Len(upCall.data.elems) = 0
    /\ nUploads = 1


\* C25: an UploadSliceToGL that fails (empty input, non-slice input or
\* unsupported element type) has issued no backend call at all, no createBuffer,
\* no bindBuffer and no bufferData: the step of a failing invocation leaves the
\* backend's calls, its buffer set, its bindings and its data stores unchanged.
C25_FailedUploadNoCall ==
    [][ ( upCall'.fn = "UploadSliceToGL" /\ ~panicked /\ panicked' ) =>
            /\ NotNonEmptySlice(upCall'.data) \/ UnsupportedElem(upCall'.data)
            /\ upCall'.outcome = "panic"
            /\ glCalls' = glCalls
            /\ glNextBuffer' = glNextBuffer
            /\ glBound' = glBound
            /\ glStore' = glStore ]_vars

C25_Witness ==
    /\ upCall.outcome = "panic"
    /\ upCall.data.kind = "slice"
    /\ upCall.data.elem = "uint8"
    /\ nUploads = 1
    /\ Len(glCalls) = 3
    /\ upCall.callsBefore = 3
    /\ glNextBuffer = 1


(***************************************************************************)
(* Properties of the matrix functions, checked under Spec.                 *)
(***************************************************************************)
\* the element of m at row r and column c in the column-major layout
RC(m, r, c) == m[c * 4 + r + 1]

Kronecker(r, c) == IF r = c THEN One ELSE Zero

Sum4(t0, t1, t2, t3) == FAdd(FAdd(FAdd(t0, t1), t2), t3)

\* component c of the homogeneous point (p, 1)
Hom(p, c) == IF c = 3 THEN One ELSE p[c + 1]

\* row r of the matrix-vector product of m and the homogeneous point (p, 1)
HomRow(m, r, p) ==
    LET term(c) == FMul(RC(m, r, c), Hom(p, c))
    IN  Sum4(term(0), term(1), term(2), term(3))

AllFinite(m) == \A n \in 1..Len(m) : IsFinite(m[n])

AllInteger(m) == \A n \in 1..Len(m) : m[n][2] = 1

Returned(op) == call.op = op /\ ~call.panic

\* C5: every function that returns a Mat4 returns 16 elements, the element of
\* row r and column c at index c*4+r: Identity, Translate, the three rotations,
\* LookAt and Perspective hold the entries of their matrix at these indices,
\* and MultiplyMatrices and TransformVertices read their arguments and write
\* the product by the same rule.
C5_ColumnMajor ==
    ( call.op \in { "Identity", "Translate", "RotateX", "RotateY", "RotateZ", "LookAt",
                    "Perspective", "MultiplyMatrices" } /\ ~call.panic ) =>
    LET m == call.ret
        rows == 0..3
    IN
    /\ Len(m) = 16
    /\ Returned("Identity") => \A r \in rows, c \in rows : RC(m, r, c) = Kronecker(r, c)
    /\ Returned("Translate") =>
          \A r \in rows, c \in rows :
              RC(m, r, c) = IF c = 3 /\ r < 3 THEN call.args[r + 1] ELSE Kronecker(r, c)
    /\ Returned("RotateX") =>
          \A r \in rows, c \in rows :
              RC(m, r, c) = CASE <<r, c>> \in { <<1, 1>>, <<2, 2>> } -> Cos(call.args[1])
                              [] <<r, c>> = <<2, 1>> -> Sin(call.args[1])
                              [] <<r, c>> = <<1, 2>> -> FNeg(Sin(call.args[1]))
                              [] OTHER -> Kronecker(r, c)
    /\ Returned("RotateY") =>
          \A r \in rows, c \in rows :
              RC(m, r, c) = CASE <<r, c>> \in { <<0, 0>>, <<2, 2>> } -> Cos(call.args[1])
                              [] <<r, c>> = <<0, 2>> -> Sin(call.args[1])
                              [] <<r, c>> = <<2, 0>> -> FNeg(Sin(call.args[1]))
                              [] OTHER -> Kronecker(r, c)
    /\ Returned("RotateZ") =>
          \A r \in rows, c \in rows :
              RC(m, r, c) = CASE <<r, c>> \in { <<0, 0>>, <<1, 1>> } -> Cos(call.args[1])
                              [] <<r, c>> = <<1, 0>> -> Sin(call.args[1])
                              [] <<r, c>> = <<0, 1>> -> FNeg(Sin(call.args[1]))
                              [] OTHER -> Kronecker(r, c)
    /\ Returned("LookAt") =>
          LET eye == call.args[1]
              f == Normalize(Subtract(call.args[2], eye))
              s == Normalize(Cross(f, call.args[3]))
              u == Cross(s, f)
              axis(r) == CASE r = 0 -> s [] r = 1 -> u [] r = 2 -> << FNeg(f[1]), FNeg(f[2]), FNeg(f[3]) >>
          IN  \A r \in rows, c \in rows :
                  RC(m, r, c) = IF r = 3 THEN Kronecker(r, c)
                                ELSE IF c < 3 THEN axis(r)[c + 1]
                                ELSE FNeg(Dot(axis(r), eye))
    /\ Returned("Perspective") =>
          LET f == FDiv(One, TanHalf(call.args[1]))
              aspect == call.args[2]
              near == call.args[3]
              far == call.args[4]
              nf == FDiv(One, FSub(near, far))
          IN  \A r \in rows, c \in rows :
                  RC(m, r, c) = CASE <<r, c>> = <<0, 0>> -> FDiv(f, aspect)
                                  [] <<r, c>> = <<1, 1>> -> f
                                  [] <<r, c>> = <<2, 2>> -> FMul(FAdd(far, near), nf)
                                  [] <<r, c>> = <<3, 2>> -> I(-1)
                                  [] <<r, c>> = <<2, 3>> -> FMul(FMul(FMul(I(2), far), near), nf)
                                  [] OTHER -> Zero
    /\ Returned("MultiplyMatrices") =>
          \A r \in rows, c \in rows :
              LET term(k) == FMul(RC(call.a, r, k), RC(call.b, k, c))
              IN  RC(m, r, c) = Sum4(term(0), term(1), term(2), term(3))
    /\ \A p \in Points, r \in 0..2 :
          LET w == HomRow(m, 3, p)
          IN  TransformVertices(p, m)[r + 1] =
                  IF FEq(w, Zero) THEN Zero ELSE FDiv(HomRow(m, r, p), w)

C5_Witness ==
    /\ Returned("MultiplyMatrices")
    /\ call.a = Perspective("atan43", I(2), I(1), I(3))
    /\ call.b = LookAt(Vec3(3, 0, 4), Vec3(0, 0, 0), Vec3(0, 1, 0))
    /\ call.ret[15] # Zero

\* C6 as stated: for every Mat4 m, MultiplyMatrices(m, Identity()) and
\* MultiplyMatrices(Identity(), m) equal m element by element.
C6_IdentityNeutral ==
    Returned("MultiplyMatrices") =>
        /\ call.b = Identity => call.ret = call.a
        /\ call.a = Identity => call.ret = call.b

\* C6, amended: for every Mat4 m whose sixteen elements are finite,
\* MultiplyMatrices(m, Identity()) and MultiplyMatrices(Identity(), m) equal m
\* element by element.
C6_IdentityNeutralFinite ==
    Returned("MultiplyMatrices") =>
        /\ (call.b = Identity /\ AllFinite(call.a)) => call.ret = call.a
        /\ (call.a = Identity /\ AllFinite(call.b)) => call.ret = call.b

C6_Witness ==
    /\ Returned("MultiplyMatrices")
    /\ call.a = Identity
    /\ call.b = Counting
    /\ call.ret = Counting

\* C7: MultiplyMatrices(a, b) is the product a*b with a on the left:
\* result[j*4+i] is the sum over k of a[k*4+i] * b[j*4+k]; for quarter turns
\* MultiplyMatrices(RotateY, RotateX) is {0,0,-1,0, 1,0,0,0, 0,-1,0,0, 0,0,0,1},
\* and MultiplyMatrices(RotateX, RotateY) is another matrix.
C7_QuarterTurns ==
    << I(0), I(0), I(-1), I(0),
       I(1), I(0), I(0), I(0),
       I(0), I(-1), I(0), I(0),
       I(0), I(0), I(0), I(1) >>

C7_Product ==
    Returned("MultiplyMatrices") =>
        /\ \A i \in 0..3, j \in 0..3 :
              call.ret[j * 4 + i + 1] =
                  FAdd(FAdd(FAdd(FMul(call.a[0 * 4 + i + 1], call.b[j * 4 + 0 + 1]),
                                 FMul(call.a[1 * 4 + i + 1], call.b[j * 4 + 1 + 1])),
                            FMul(call.a[2 * 4 + i + 1], call.b[j * 4 + 2 + 1])),
                       FMul(call.a[3 * 4 + i + 1], call.b[j * 4 + 3 + 1]))
        /\ (call.a = RotateY("pi/2") /\ call.b = RotateX("pi/2")) => call.ret = C7_QuarterTurns
        /\ (call.a = RotateX("pi/2") /\ call.b = RotateY("pi/2")) => call.ret # C7_QuarterTurns

C7_Witness ==
    /\ Returned("MultiplyMatrices")
    /\ call.a = RotateY("pi/2")
    /\ call.b = RotateX("pi/2")
    /\ call.ret = C7_QuarterTurns

\* the matrix-vector product of m and the column vector v (both of integers)
MatVec(m, v) == [r \in 1..4 |-> RowTimes(m, r - 1, v[1], v[2], v[3], v[4])]

\* C8: MultiplyMatrices(a, b) is 'apply b, then a': for integer matrices a, b
\* and every point v = (x, y, z, 1), the product matrix times v is a times
\* (b times v), component by component.
C8_ApplyBThenA ==
    ( Returned("MultiplyMatrices") /\ AllInteger(call.a) /\ AllInteger(call.b) ) =>
        \A p \in Points :
            LET v == << p[1], p[2], p[3], One >>
            IN  MatVec(call.ret, v) = MatVec(call.a, MatVec(call.b, v))

C8_Witness ==
    /\ Returned("MultiplyMatrices")
    /\ call.a = Counting
    /\ call.b = Translate(I(10), I(20), I(30))
    /\ call.depth = 0


(***************************************************************************)
(* Properties of TransformVertices, checked under SpecXform.               *)
(***************************************************************************)
\* the slice handed to the last call, as it was before the call, and as it is now
CoordsBefore == call.pre[call.arg]
CoordsAfter == heap[call.arg]

\* vertex i (from 0) of a coords slice
Vertex(coords, i) == << coords[3 * i + 1], coords[3 * i + 2], coords[3 * i + 3] >>

\* C9: TransformVertices takes every consecutive triple as the point (x,y,z,1),
\* computes the four components of m times it, and stores (x'/w', y'/w', z'/w')
\* when w' is not 0 and (0,0,0) when w' is 0; it returns normally for every
\* matrix of 16 elements and every slice of whole vertices.
C9_PerspectiveDivide ==
    /\ ( call.op = "TransformVertices" /\ Len(call.a) = 16 /\ Len(CoordsBefore) % 3 = 0 )
          => ( ~call.panic /\ ~panicked )
    /\ Returned("TransformVertices") =>
          \A i \in 0..((Len(CoordsBefore) \div 3) - 1) :
              LET p == Vertex(CoordsBefore, i)
                  q == Vertex(CoordsAfter, i)
                  w == HomRow(call.a, 3, p)
              IN  IF w = Zero
                  THEN q = << Zero, Zero, Zero >>
                  ELSE \A r \in 0..2 :
                          /\ IsFinite(q[r + 1])
                          /\ FMul(q[r + 1], w) = HomRow(call.a, r, p)

C9_Witness ==
    /\ Returned("TransformVertices")
    /\ Len(CoordsBefore) = 6
    /\ HomRow(call.a, 3, Vertex(CoordsBefore, 0)) = Zero
    /\ Vertex(CoordsBefore, 0) # << Zero, Zero, Zero >>
    /\ Vertex(CoordsAfter, 0) = << Zero, Zero, Zero >>
    /\ HomRow(call.a, 3, Vertex(CoordsBefore, 1)) \notin { Zero, One }
    /\ Vertex(CoordsAfter, 1) # Vertex(CoordsBefore, 1)

\* C10: TransformVertices overwrites its coords argument and returns that same
\* slice: the slice returned is the slice passed, it has the length it had, it
\* holds the transformed vertices in place of the original ones, no other slice
\* is allocated or changed, and the matrix m is as it was.
C10_InPlace ==
    Returned("TransformVertices") =>
        /\ call.retRef = call.arg
        /\ Len(heap) = Len(call.pre)
        /\ Len(CoordsAfter) = Len(CoordsBefore)
        /\ CoordsAfter = TransformVertices(CoordsBefore, call.a)
        /\ \A ref \in 1..Len(heap) : ref # call.arg => heap[ref] = call.pre[ref]
        /\ ma = call.a

C10_Witness ==
    /\ Returned("TransformVertices")
    /\ nCalls = 2
    /\ Len(heap) = 2
    /\ call.arg = 1
    /\ Len(CoordsAfter) = 6
    /\ CoordsAfter # CoordsBefore
    /\ \A ref \in 1..Len(heap) : heap[ref] # CoordsBefore


(***************************************************************************)
(* Properties of the matrix constructors seen through TransformVertices,   *)
(* checked under SpecXform.                                                *)
(***************************************************************************)
\* the identity matrix with x, y, z at indices 12, 13, 14
IdentityWith(x, y, z) == [Identity EXCEPT ![13] = x, ![14] = y, ![15] = z]

\* C11: Translate(x,y,z) is the identity matrix with x, y, z at indices 12, 13,
\* 14 and nothing else changed, and TransformVertices with it maps every point
\* (px,py,pz) to exactly (px+x, py+y, pz+z); Translate(10,20,30) maps (0,0,0)
\* and (1,0,0) to (10,20,30) and (11,20,30).
C11_Translate ==
    /\ \A t \in TransVals : Translate(t[1], t[2], t[3]) = IdentityWith(t[1], t[2], t[3])
    /\ Returned("TransformVertices") =>
          \A t \in TransVals :
              call.a = IdentityWith(t[1], t[2], t[3]) =>
                  \A i \in 0..((Len(CoordsBefore) \div 3) - 1) :
                      LET p == Vertex(CoordsBefore, i)
                          q == Vertex(CoordsAfter, i)
                      IN  \A r \in 1..3 : /\ q[r][2] = 1
                                          /\ q[r][1] = p[r][1] + t[r][1]
    /\ ( /\ Returned("TransformVertices")
         /\ call.a = IdentityWith(I(10), I(20), I(30))
         /\ CoordsBefore = Vec3(0, 0, 0) \o Vec3(1, 0, 0) )
       => CoordsAfter = Vec3(10, 20, 30) \o Vec3(11, 20, 30)

C11_Witness ==
    /\ Returned("TransformVertices")
    /\ call.a = Translate(I(10), I(20), I(30))
    /\ CoordsBefore = Vec3(0, 0, 0) \o Vec3(1, 0, 0)
    /\ CoordsAfter = Vec3(10, 20, 30) \o Vec3(11, 20, 30)


(***************************************************************************)
(* Properties of the matrix constructors, checked under Spec.              *)
(***************************************************************************)
\* the identity matrix with four of its elements (Go indices) replaced
IdentityWith4(i1, v1, i2, v2, i3, v3, i4, v4) ==
    [Identity EXCEPT ![i1 + 1] = v1, ![i2 + 1] = v2, ![i3 + 1] = v3, ![i4 + 1] = v4]

\* C12: with s = sin(angle) and c = cos(angle), RotateX has m[5]=c, m[6]=s,
\* m[9]=-s, m[10]=c; RotateY has m[0]=c, m[2]=-s, m[8]=s, m[10]=c; RotateZ has
\* m[0]=c, m[1]=s, m[4]=-s, m[5]=c; each is the identity elsewhere.
C12_RotationSigns ==
    LET s == Sin(call.args[1])
        c == Cos(call.args[1])
    IN  /\ Returned("RotateX") => call.ret = IdentityWith4(5, c, 6, s, 9, FNeg(s), 10, c)
        /\ Returned("RotateY") => call.ret = IdentityWith4(0, c, 2, FNeg(s), 8, s, 10, c)
        /\ Returned("RotateZ") => call.ret = IdentityWith4(0, c, 1, s, 4, FNeg(s), 5, c)
        /\ (Returned("RotateX") /\ call.args = <<"atan43">>) =>
              /\ call.ret[6 + 1] = F(4, 5)
              /\ call.ret[9 + 1] = F(-4, 5)

C12_Witness ==
    /\ Returned("RotateY")
    /\ call.args = <<"atan43">>
    /\ call.ret[0 + 1] = F(3, 5)
    /\ call.ret[2 + 1] = F(-4, 5)
    /\ call.ret[8 + 1] = F(4, 5)
    /\ call.ret[10 + 1] = F(3, 5)


\* C14: LookAt(eye, center, up) takes f = Normalize(center - eye),
\* s = Normalize(Cross(f, up)) and u = Cross(s, f); m[0],m[4],m[8] are s,
\* m[1],m[5],m[9] are u, m[2],m[6],m[10] are -f, column 3 is
\* (-Dot(s,eye), -Dot(u,eye), Dot(f,eye), 1), and m[3], m[7], m[11] are 0.
C14_LookAtRows ==
    Returned("LookAt") =>
        LET eye == call.args[1]
            f == Normalize(Subtract(call.args[2], eye))
            s == Normalize(Cross(f, call.args[3]))
            u == Cross(s, f)
            m == call.ret
        IN  /\ << m[0 + 1], m[4 + 1], m[8 + 1] >> = s
            /\ << m[1 + 1], m[5 + 1], m[9 + 1] >> = u
            /\ << m[2 + 1], m[6 + 1], m[10 + 1] >> = << FNeg(f[1]), FNeg(f[2]), FNeg(f[3]) >>
            /\ << m[12 + 1], m[13 + 1], m[14 + 1], m[15 + 1] >>
                   = << FNeg(Dot(s, eye)), FNeg(Dot(u, eye)), Dot(f, eye), One >>
            /\ << m[3 + 1], m[7 + 1], m[11 + 1] >> = << Zero, Zero, Zero >>
            /\ call.args = << Vec3(3, 0, 4), Vec3(0, 0, 0), Vec3(0, 1, 0) >> =>
                  m = << F(4, 5), I(0), F(3, 5), I(0),
                         I(0), I(1), I(0), I(0),
                         F(-3, 5), I(0), F(4, 5), I(0),
                         I(0), I(0), I(-5), I(1) >>

C14_Witness ==
    /\ Returned("LookAt")
    /\ call.args = << Vec3(3, 0, 4), Vec3(0, 0, 0), Vec3(0, 1, 0) >>
    /\ << call.ret[0 + 1], call.ret[4 + 1], call.ret[8 + 1] >> = << F(4, 5), I(0), F(-3, 5) >>
    /\ << call.ret[2 + 1], call.ret[6 + 1], call.ret[10 + 1] >> = << F(3, 5), I(0), F(4, 5) >>
    /\ call.ret[14 + 1] = I(-5)


\* C15: for a camera on the positive Z axis looking at the origin with up =
\* (0,1,0), LookAt((0,0,d), (0,0,0), (0,1,0)) with d > 0 equals Translate(0,0,-d)
\* and transforms the world point (0,0,0) to the view point (0,0,-d).
C15_LookAtFromZ ==
    Returned("LookAt") =>
        LET eye == call.args[1]
            d == eye[3]
        IN  ( /\ eye[1] = Zero /\ eye[2] = Zero /\ FGt(d, Zero)
              /\ call.args[2] = Vec3(0, 0, 0)
              /\ call.args[3] = Vec3(0, 1, 0) )
            => /\ call.ret = Translate(Zero, Zero, FNeg(d))
               /\ call.ret[14 + 1] = <<-d[1], d[2]>>
               /\ TransformVertices(Vec3(0, 0, 0), call.ret) = << Zero, Zero, FNeg(d) >>

\* C16: Perspective(fov, aspect, near, far) is, element by element, the matrix
\* with m[0] = f/aspect, m[5] = f, m[10] = (far+near)*nf, m[11] = -1,
\* m[14] = 2*far*near*nf and 0 in the eleven other elements (m[15] included),
\* where f = 1/tan(fov/2) and nf = 1/(near-far).
C16_PerspectiveClosedForm ==
    Returned("Perspective") =>
        LET fov == call.args[1]
            aspect == call.args[2]
            near == call.args[3]
            far == call.args[4]
            f == FDiv(One, TanHalf(fov))
            nf == FDiv(One, FSub(near, far))
            m == call.ret
        IN  /\ Len(m) = 16
            /\ \A n \in 0..15 :
                  m[n + 1] = CASE n = 0 -> FDiv(f, aspect)
                               [] n = 5 -> f
                               [] n = 10 -> FMul(FAdd(far, near), nf)
                               [] n = 11 -> I(-1)
                               [] n = 14 -> FMul(FMul(FMul(I(2), far), near), nf)
                               [] OTHER -> Zero
            /\ call.args = << "atan43", I(2), I(1), I(3) >> =>
                  m = << I(1), I(0), I(0), I(0),
                         I(0), I(2), I(0), I(0),
                         I(0), I(0), I(-2), I(-1),
                         I(0), I(0), I(-3), I(0) >>

C16_Witness ==
    /\ Returned("Perspective")
    /\ call.args = << "atan43", I(2), I(1), I(3) >>
    /\ call.ret[0 + 1] = I(1)
    /\ call.ret[5 + 1] = I(2)
    /\ call.ret[10 + 1] = I(-2)
    /\ call.ret[14 + 1] = I(-3)
    /\ call.ret[15 + 1] = I(0)


(***************************************************************************)
(* Handedness and depth range, checked under SpecXform.                    *)
(***************************************************************************)
\* C13: RotateY of a quarter turn (c = 0, s = 1), applied by TransformVertices
\* to the point (1,0,0), yields (0,0,-1).
C13_Handedness ==
    ( Returned("TransformVertices") /\ call.a = RotateY("pi/2") ) =>
        \A i \in 0..((Len(CoordsBefore) \div 3) - 1) :
            Vertex(CoordsBefore, i) = Vec3(1, 0, 0) => Vertex(CoordsAfter, i) = Vec3(0, 0, -1)

C13_Witness ==
    /\ Returned("TransformVertices")
    /\ call.a = RotateY("pi/2")
    /\ Len(CoordsBefore) = 3
    /\ Vertex(CoordsBefore, 0) = Vec3(1, 0, 0)
    /\ Vertex(CoordsAfter, 0) = Vec3(0, 0, -1)

\* Go's <= on float32
FLe(x, y) == FGt(y, x) \/ FEq(x, y)

\* C17: for near > 0 and far > near, Perspective followed by the perspective
\* divide of TransformVertices maps every point with z = -near to z' = -1, every
\* point with z = -far to z' = +1, and every point with -far <= z <= -near to
\* -1 <= z' <= 1.
C17_DepthRange ==
    Returned("TransformVertices") =>
        \A fov \in Fovs, aspect \in Aspects, nearFar \in NearFars :
            LET near == nearFar[1]
                far == nearFar[2]
            IN  ( /\ FGt(near, Zero)
                  /\ FGt(far, near)
                  /\ call.a = Perspective(fov, aspect, near, far) )
                => \A i \in 0..((Len(CoordsBefore) \div 3) - 1) :
                       LET z == Vertex(CoordsBefore, i)[3]
                           zAfter == Vertex(CoordsAfter, i)[3]
                       IN  /\ z = FNeg(near) => zAfter = I(-1)
                           /\ z = FNeg(far) => zAfter = I(1)
                           /\ (FLe(FNeg(far), z) /\ FLe(z, FNeg(near))) =>
                                  (FLe(I(-1), zAfter) /\ FLe(zAfter, I(1)))

C17_Witness ==
    /\ Returned("TransformVertices")
    /\ call.a = Perspective("pi/2", I(2), I(1), I(3))
    /\ Len(CoordsBefore) = 6
    /\ Vertex(CoordsBefore, 0) = Vec3(0, 0, -1)
    /\ Vertex(CoordsAfter, 0)[3] = I(-1)
    /\ Vertex(CoordsBefore, 1) = Vec3(1, 0, -2)
    /\ Vertex(CoordsAfter, 1)[3] = F(1, 2)


(***************************************************************************)
(* Properties of the Vec3 functions, checked under SpecVec.                *)
(***************************************************************************)
ZeroVec == << Zero, Zero, Zero >>

\* the components of v are integers of ordinary magnitude
IntVec(v) == \A n \in 1..Len(v) : Len(v[n]) = 2 /\ v[n][2] = 1

\* the components of v are finite numbers, not all of them 0: its length is > 0
PositiveLength(v) ==
    /\ Len(v) = 3
    /\ \A n \in 1..3 : IsFinite(v[n])
    /\ \E n \in 1..3 : v[n][1] # 0

\* C18: Normalize returns the zero vector (0,0,0), and raises no error, whenever
\* the length of its input is 0; Normalize((0,0,0)) = (0,0,0).
C18_NormalizeZero ==
    ( call.op = "Normalize" /\ Len(call.args[1]) = 3 ) =>
        /\ call.args[1] = ZeroVec => (~call.panic /\ ~panicked /\ call.ret = ZeroVec)
        /\ (~call.panic /\ Sqrt(SquaredLength(call.args[1])) = Zero) => call.ret = ZeroVec

C18_Witness ==
    /\ Returned("Normalize")
    /\ call.args = << Vec3(0, 0, 0) >>
    /\ call.ret = Vec3(0, 0, 0)
    /\ ~panicked

\* C19: for every Vec3 v whose length is greater than 0, Normalize(v) has
\* length 1 and the direction of v; Normalize((3,4,0)) = (0.6, 0.8, 0).
C19_NormalizeUnit ==
    ( Returned("Normalize") /\ PositiveLength(call.args[1]) ) =>
        LET v == call.args[1]
            n == call.ret
        IN  /\ SquaredLength(n) = One
            /\ Cross(n, v) = ZeroVec
            /\ FGt(Dot(n, v), Zero)
            /\ v = Vec3(3, 4, 0) => n = << F(3, 5), F(4, 5), Zero >>

\* C20: Subtract, Cross and Dot compute the standard definitions:
\* Subtract(a,b) = (a0-b0, a1-b1, a2-b2); Cross(a,b) = (a1*b2-a2*b1, a2*b0-a0*b2,
\* a0*b1-a1*b0), and Cross((1,0,0),(0,1,0)) = (0,0,1); Dot(a,b) = a0*b0+a1*b1+a2*b2.
C20_VectorDefinitions ==
    ( call.op \in { "Subtract", "Cross", "Dot" } /\ ~call.panic ) =>
        LET a == call.args[1]
            b == call.args[2]
            ai(n) == a[n + 1][1]
            bi(n) == b[n + 1][1]
            ints == IntVec(a) /\ IntVec(b)
        IN  /\ Returned("Subtract") =>
                  /\ call.ret = << FSub(a[1], b[1]), FSub(a[2], b[2]), FSub(a[3], b[3]) >>
                  /\ ints => call.ret = << I(ai(0) - bi(0)), I(ai(1) - bi(1)), I(ai(2) - bi(2)) >>
            /\ Returned("Cross") =>
                  /\ call.ret = << FSub(FMul(a[2], b[3]), FMul(a[3], b[2])),
                                   FSub(FMul(a[3], b[1]), FMul(a[1], b[3])),
                                   FSub(FMul(a[1], b[2]), FMul(a[2], b[1])) >>
                  /\ ints => call.ret = << I(ai(1) * bi(2) - ai(2) * bi(1)),
                                           I(ai(2) * bi(0) - ai(0) * bi(2)),
                                           I(ai(0) * bi(1) - ai(1) * bi(0)) >>
                  /\ (a = Vec3(1, 0, 0) /\ b = Vec3(0, 1, 0)) => call.ret = Vec3(0, 0, 1)
            /\ Returned("Dot") =>
                  /\ call.ret = FAdd(FAdd(FMul(a[1], b[1]), FMul(a[2], b[2])), FMul(a[3], b[3]))
                  /\ ints => call.ret = I(ai(0) * bi(0) + ai(1) * bi(1) + ai(2) * bi(2))

C20_Witness ==
    /\ Returned("Cross")
    /\ call.args = << Vec3(1, 0, 0), Vec3(0, 1, 0) >>
    /\ call.ret = Vec3(0, 0, 1)

(***************************************************************************)
(* Properties of the model-view-projection composition, checked under      *)
(* SpecMVP.                                                                *)
(***************************************************************************)
\* the composition ended: call.ret is MultiplyMatrices(ma, MultiplyMatrices(mb, model))
Composed(model) == call.op = "MultiplyMatrices" /\ call.depth = 1 /\ call.args = model

\* C21: for every projection matrix P and view matrix V,
\* MultiplyMatrices(P, MultiplyMatrices(V, RotateY(0))) equals
\* MultiplyMatrices(P, MultiplyMatrices(V, Identity())) element by element
\* (Go's == on each of the sixteen float32 pairs).
C21_ZeroAngleRoundTrip ==
    Composed(<<"RotateY", "0">>) =>
        LET withIdentity == MultiplyMatrices(ma, MultiplyMatrices(mb, Identity))
        IN  \A n \in 1..16 : FEq(call.ret[n], withIdentity[n])

C21_Witness ==
    /\ Composed(<<"RotateY", "0">>)
    /\ ma = Perspective("atan43", I(2), I(1), I(3))
    /\ mb = LookAt(Vec3(3, 0, 4), Vec3(0, 0, 0), Vec3(0, 1, 0))
    /\ call.ret[1] # Zero
    /\ call.ret[15] # Zero

(***************************************************************************)
(* Properties of the argument checks and of LookAt, checked under          *)
(* SpecArity.                                                              *)
(***************************************************************************)
\* the last call panicked: the panic reached the caller and nothing was returned
Reported == call.panic /\ panicked /\ call.ret = <<>> /\ call.retRef = 0

\* C22: every arity violation is reported to the caller: Subtract, Cross, Dot,
\* Normalize and LookAt panic when a vector argument has not exactly 3
\* components, MultiplyMatrices panics when a matrix has not exactly 16
\* elements, and TransformVertices panics when m has not 16 elements or
\* len(coords) is no multiple of 3, no element of coords having been modified.
C22_ArityReported ==
    /\ ( call.op \in { "Subtract", "Cross", "Dot" }
         /\ (Len(call.args[1]) # 3 \/ Len(call.args[2]) # 3) ) => Reported
    /\ ( call.op = "Normalize" /\ Len(call.args[1]) # 3 ) => Reported
    /\ ( call.op = "LookAt"
         /\ \E n \in 1..3 : Len(call.args[n]) # 3 ) => Reported
    /\ ( call.op = "MultiplyMatrices"
         /\ (Len(call.a) # 16 \/ Len(call.b) # 16) ) => Reported
    /\ ( call.op = "TransformVertices"
         /\ (Len(call.a) # 16 \/ Len(call.pre[call.arg]) % 3 # 0) ) =>
            Reported /\ heap = call.pre
    /\ call.panic => panicked

C22_Witness ==
    /\ call.op = "TransformVertices"
    /\ call.a = Identity
    /\ Len(call.pre[call.arg]) = 4
    /\ panicked
    /\ heap = call.pre

(***************************************************************************)
(* Properties of the animation loop, checked under SpecFrame.              *)
(***************************************************************************)
\* the indices of the WebGL calls of function fn
FnAt(fn) == { n \in 1..Len(glCalls) : glCalls[n].fn = fn }

IsUniformCall(c) == c.fn = "uniformMatrix4fv"

\* the matrices sent to the shader uniform, in the order of the frames
UniformsSent == [n \in 1..Len(SelectSeq(glCalls, IsUniformCall)) |->
                    SelectSeq(glCalls, IsUniformCall)[n].args[3]]

\* the angle of the k-th frame
RECURSIVE AngleOfFrame(_)
AngleOfFrame(k) == IF k = 0 THEN "0" ELSE AdvanceAngle(AngleOfFrame(k - 1))

\* MultiplyMatrices(projection, MultiplyMatrices(view, model)) for the model RotateY(a)
MvpOf(projection, view, a) ==
    MultiplyMatrices(projection, MultiplyMatrices(view, RotateY(a)))

\* C23: in every run of the frame callback, under any interleaving of resize
\* events between frames, the model matrix is recomputed and the MVP built as
\* MultiplyMatrices(projection, MultiplyMatrices(view, model)) is sent to the
\* shader uniform before any of that frame's draw calls; no draw call is
\* issued before update() has set the view and projection matrices, and no
\* frame draws with an MVP left over from an earlier frame.
C23_FrameOrder ==
    /\ ~panicked
    \* a frame runs after update() has assigned both matrices
    /\ nFrames > 0 => ( Len(ma) = 16 /\ Len(mb) = 16 /\ ma = UpdateProjMatrix
                        /\ mb = UpdateViewMatrix )
    \* every frame has sent its own matrix, built from the angle of that frame
    /\ Len(UniformsSent) = nFrames
    /\ \A k \in 1..nFrames :
          /\ UniformsSent[k] = MvpOf(UpdateProjMatrix, UpdateViewMatrix, AngleOfFrame(k))
          /\ k > 1 => UniformsSent[k] # UniformsSent[k - 1]
    /\ call.op = "renderFrame" =>
          /\ frameAngle = AngleOfFrame(nFrames)
          /\ UniformsSent[nFrames] = MvpOf(ma, mb, frameAngle)
          /\ call.ret = UniformsSent[nFrames]
    \* every draw call comes after update()'s viewport call and after the
    \* uniformMatrix4fv call of its own frame: between that call and the draw
    \* there is no resize, and at most the three draws of one frame
    /\ \A d \in FnAt("drawArrays") :
          /\ \E v \in FnAt("viewport") : v < d
          /\ \E u \in FnAt("uniformMatrix4fv") :
                /\ u < d
                /\ \A n \in (u + 1)..d : glCalls[n].fn \notin { "viewport", "uniformMatrix4fv" }
                /\ Cardinality({ n \in (u + 1)..d : glCalls[n].fn = "drawArrays" }) <= 3

C23_Witness ==
    /\ nFrames = 2
    /\ nResizes = 2
    /\ Len(glCalls) = 37
    /\ glCalls[1].fn = "viewport"
    /\ glCalls[2].fn = "uniformMatrix4fv"
    /\ glCalls[19].fn = "viewport"
    /\ glCalls[20].fn = "viewport"
    /\ glCalls[21].fn = "uniformMatrix4fv"
    /\ glCalls[37].fn = "drawArrays"
    /\ glCalls[21].args[3] # glCalls[2].args[3]

(***************************************************************************)
(* Properties of createVBO, checked under SpecVBO.                         *)
(***************************************************************************)
\* C24: createVBO, called with a zero-length slice, reports a failure and
\* submits no bufferData upload of an empty or null view.
C24_CreateVBOEmpty ==
    ( upCall.fn \in { "createVBO", "createVBOCopy" } /\ Len(upCall.data.elems) = 0 ) =>
        /\ upCall.outcome = "panic"
        /\ \A n \in CallsOf("bufferData") : n <= upCall.callsBefore

\* LookAt was called on three Vec3 values: its eye, center and up
LookAtCalled == call.op = "LookAt" /\ \A n \in 1..3 : Len(call.args[n]) = 3

\* the forward direction center - eye is the zero vector, or parallel or
\* anti-parallel to up
Degenerate(eye, center, up) ==
    \/ eye = center
    \/ Cross(Subtract(center, eye), up) = ZeroVec

\* C26: for every non-degenerate LookAt(eye, center, up) (eye # center and
\* forward not parallel to up), the view matrix applied to the eye position
\* (eye0, eye1, eye2, 1) yields the view-space origin (0, 0, 0), with w = 1.
C26_EyeToOrigin ==
    ( LookAtCalled /\ ~Degenerate(call.args[1], call.args[2], call.args[3]) ) =>
        LET eye == call.args[1]
        IN  /\ Returned("LookAt")
            /\ \A r \in 0..2 : FEq(RowTimes(call.ret, r, eye[1], eye[2], eye[3], One), Zero)
            /\ FEq(RowTimes(call.ret, 3, eye[1], eye[2], eye[3], One), One)

C26_Witness ==
    /\ Returned("LookAt")
    /\ call.args = << Vec3(3, 4, 0), Vec3(0, 0, 0), Vec3(0, 1, 0) >>
    /\ call.ret[15] = I(-5)
    /\ call.ret[3] = F(3, 5)
    /\ call.ret[9] = I(-1)

\* C27: in the degenerate cases of LookAt (forward parallel or anti-parallel to
\* up, or eye equal to center) the call does not fail: Cross(f, up) is the zero
\* vector, Normalize maps it to zero, and the 16-element matrix returned has
\* all-zero side and trueUp rows (m[0], m[4], m[8], m[12] and m[1], m[5], m[9],
\* m[13] are 0).
C27_DegenerateLookAt ==
    ( LookAtCalled /\ Degenerate(call.args[1], call.args[2], call.args[3]) ) =>
        LET f == Normalize(Subtract(call.args[2], call.args[1]))
        IN  /\ Returned("LookAt")
            /\ ~panicked
            /\ Cross(f, call.args[3]) = ZeroVec
            /\ Normalize(Cross(f, call.args[3])) = ZeroVec
            /\ Len(call.ret) = 16
            /\ \A n \in { 0, 4, 8, 12 } : FEq(At(call.ret, n), Zero)
            /\ \A n \in { 1, 5, 9, 13 } : FEq(At(call.ret, n), Zero)

C27_Witness ==
    /\ Returned("LookAt")
    /\ call.args = << Vec3(0, 1, 0), Vec3(0, 0, 0), Vec3(0, 1, 0) >>
    /\ call.ret[7] = I(1)
    /\ call.ret[15] = I(-1)
    /\ call.ret[1] = Zero

(***************************************************************************)
(* Properties of the camera, checked under SpecCamera.                     *)
(***************************************************************************)
\* the step is a call of the method op of the Camera
CameraStep(op) == nEvents' = nEvents + 1 /\ call'.op = op

\* the magnitude of a float32
FAbs(x) == [x EXCEPT ![1] = Abs(x[1])]

\* C28: after any sequence of HandleMouseDown, HandleMouseMove, HandleMouseUp,
\* HandleMouseWheel and ApplyInertia calls on a Camera from NewCamera, rotationX
\* lies within [minRotationX, maxRotationX], and these limits lie strictly
\* inside plus and minus pi/2: the cosine of rotationX is not 0, so the forward
\* vector of GetViewMatrix is never parallel to the up vector (0, 1, 0).
C28_RotationClamped ==
    /\ FLe(camera.minRotationX, camera.rotationX)
    /\ FLe(camera.rotationX, camera.maxRotationX)
    /\ FLt(camera.maxRotationX, BelowHalfPi)
    /\ FGt(camera.minRotationX, FNeg(BelowHalfPi))
    /\ FLt(camera.rotationX, BelowHalfPi)
    /\ FGt(camera.rotationX, FNeg(BelowHalfPi))

C28_Witness ==
    /\ call.op = "ApplyInertia"
    /\ camera.rotationX = camera.minRotationX
    /\ FLt(camera.velocityY, Zero)
    /\ ~camera.isMouseDown

\* C29: after any sequence of camera events, zoom lies within
\* [minZoom, maxZoom] = [0.1, 10.0]; zoom is never 0, so the effective distance
\* distance/zoom of GetViewMatrix is defined, and it is positive for a
\* positive distance: the camera never sits at the look-at target.
C29_ZoomClamped ==
    /\ camera.minZoom = F(1, 10)
    /\ camera.maxZoom = I(10)
    /\ FLe(camera.minZoom, camera.zoom)
    /\ FLe(camera.zoom, camera.maxZoom)
    /\ FNe(camera.zoom, Zero)
    /\ IsFinite(EffectiveDistance(camera))
    /\ FGt(camera.distance, Zero) => FGt(EffectiveDistance(camera), Zero)

C29_Witness ==
    /\ call.op = "HandleMouseWheel"
    /\ call.args = << -100 >>
    /\ camera.zoom = camera.maxZoom
    /\ nEvents = 3

\* C30: drag rotation and inertia are mutually exclusive: while isMouseDown is
\* false HandleMouseMove leaves every camera field unchanged, while isMouseDown
\* is true ApplyInertia leaves every camera field unchanged, HandleMouseDown
\* always resets both velocities to 0, and with the button up each ApplyInertia
\* scales both velocities by damping (0.90), no call increasing their
\* magnitudes until the next drag.
C30_DragInertiaExclusive ==
    [][ /\ ( CameraStep("HandleMouseMove") /\ ~camera.isMouseDown ) => camera' = camera
        /\ ( CameraStep("ApplyInertia") /\ camera.isMouseDown ) => camera' = camera
        /\ CameraStep("HandleMouseDown") =>
              /\ camera'.velocityX = Zero
              /\ camera'.velocityY = Zero
              /\ camera'.isMouseDown
        /\ ( CameraStep("ApplyInertia") /\ ~camera.isMouseDown ) =>
              /\ camera.damping = F(9, 10)
              /\ camera'.velocityX = FMul(camera.velocityX, camera.damping)
              /\ camera'.velocityY = FMul(camera.velocityY, camera.damping)
              /\ ~camera'.isMouseDown
        /\ ( ~camera.isMouseDown /\ ~camera'.isMouseDown ) =>
              /\ FLe(FAbs(camera'.velocityX), FAbs(camera.velocityX))
              /\ FLe(FAbs(camera'.velocityY), FAbs(camera.velocityY))
      ]_vars

C30_Witness ==
    /\ call.op = "ApplyInertia"
    /\ ~camera.isMouseDown
    /\ camera.velocityX = F(81, 2)
    /\ camera.velocityY = F(891, 10)


=============================================================================
